---------------------------- MODULE Spec2Model ----------------------------
(***************************************************************************)
(* A model of one decoder layer of the CPU inference engine: the Attention *)
(* block (src/src/layers/attention.h) and the LlamaMLP block               *)
(* (src/unnamed/part_000), as run by the processes (ranks) of one          *)
(* tensor-parallel group.                                                  *)
(***************************************************************************)
EXTENDS Integers, Sequences, FiniteSets, TLC

(***************************************************************************)
(* Bounds of the model.                                                    *)
(***************************************************************************)
MaxHeads == 8
MaxSplit == 4

(***************************************************************************)
(* C integer arithmetic on int: '/' truncates toward zero, '%' has the     *)
(* sign of the dividend.                                                   *)
(***************************************************************************)
CDiv(a, b) ==
    IF a >= 0 THEN a \div b ELSE -((-a) \div b)

CMod(a, b) ==
    a - b * CDiv(a, b)

Min(a, b) == IF a < b THEN a ELSE b

Max(a, b) == IF a > b THEN a ELSE b

(***************************************************************************)
(* State.                                                                  *)
(*   ctx          the DecoderContext fields shared by the ranks            *)
(*   tpl          what the build and the subclass fix: the element types   *)
(*                (bf16), getFlashThresh(), getResidentialScale() (gamma), *)
(*                INPUT_AS_RESID and the doLnBefore the driver passes      *)
(*   wts          the weights handed to setWeights (the output bias)       *)
(*   ranks        the splitIdx of every process of the group modelled      *)
(*   proc         per process: "running" or "exited" (after exit(-1))      *)
(*   att, mlp     per process and layer: the Attention and LlamaMLP object *)
(*   reserved1    per process: ctx->reserved1                              *)
(*   presentKey, presentValue   per process and layer: the KV cache        *)
(*   step         the forward call the driver is running on every rank     *)
(*   pos          per process: how far it is in the step (2*l: attention   *)
(*                of layer l is next, 2*l+1: the MLP of layer l is next)   *)
(*   call, mcall  per process and layer: what the last Attention::forward  *)
(*                and LlamaMLP::forward did                                *)
(*   region       the parallel region of crossAttnShardHead, when a spec   *)
(*                follows one step by step (SpecShard); else NoRegion      *)
(*   normBuf      per process: what ctx->normBuf holds                     *)
(***************************************************************************)
VARIABLES ctx, tpl, wts, ranks, proc, att, mlp, reserved1, presentKey, presentValue, step, pos, call, mcall,
          region, normBuf

vars == <<ctx, tpl, wts, ranks, proc, att, mlp, reserved1, presentKey, presentValue, step, pos, call, mcall,
          region, normBuf>>

SILU == "SILU"

GELU == "GELU"

(* no kernel, no residual *)
Null == "null"

(* a Vector of Size() 0, and a null float pointer *)
Empty == <<>>

NullPtr == <<>>

(* what a buffer holds before anything is written to it *)
Junk == <<"junk">>

Layers == 0..(ctx.layers - 1)

(* no matmul helper call *)
NoGemm == [gemm |-> "none", bias |-> NullPtr, gamma |-> 0, residual |-> Null]

(* An Attention object before its constructor has run. *)
NoAttention ==
    [st |-> "none", layerId |-> 0, startQHead |-> 0, endQHead |-> 0, startKVHead |-> 0,
     endKVHead |-> 0, attnOutputBias |-> Empty]

NoMLP ==
    [st |-> "none", gateWeight |-> <<>>, upWeight |-> <<>>, catWeights |-> <<>>, downRows |-> 0]

NoCall ==
    [n |-> 0, inputSeqLen |-> 0, pastSeqLen |-> 0, kernels |-> <<>>, inner |-> Null,
     kvCopied |-> FALSE, mBlockSize |-> 0,
     postOps |-> <<>>, out |-> NoGemm, postNorm |-> FALSE]

NoMCall ==
    [n |-> 0, projIn |-> Null, path |-> Null, normWritten |-> FALSE, act |-> <<>>, out |-> NoGemm]

NoStep == [n |-> 0, inputSeqLen |-> 0, pastSeqLen |-> 0]

NoRegion == [active |-> FALSE]

(***************************************************************************)
(* Attention::getTaskRange(N, splits, splitIdx): the pair <<startId,endId>>*)
(***************************************************************************)
getTaskRangeBadOffset(N, splits, splitIdx) ==
    IF CMod(N, splits) = 0
    THEN LET tasksPerSplit == CDiv(N, splits)
         IN  <<splitIdx * tasksPerSplit, splitIdx * tasksPerSplit + tasksPerSplit>>
    ELSE LET baseTasksPerSplit == CDiv(N, splits)
             remainingTasks == CMod(N, splits)
         IN  IF splitIdx < remainingTasks
             THEN <<splitIdx * (baseTasksPerSplit + 1),
                    splitIdx * (baseTasksPerSplit + 1) + baseTasksPerSplit + 1>>
             ELSE LET taskOffset == baseTasksPerSplit * remainingTasks
                      startId == taskOffset + (splitIdx - remainingTasks) * baseTasksPerSplit
                  IN  <<startId, startId + baseTasksPerSplit>>

getTaskRange(N, splits, splitIdx) ==
    IF CMod(N, splits) = 0
    THEN LET tasksPerSplit == CDiv(N, splits)
             startId == splitIdx * tasksPerSplit
         IN  <<startId, startId + tasksPerSplit>>
    ELSE LET baseTasksPerSplit == CDiv(N, splits)
             remainingTasks == CMod(N, splits)
         IN  IF splitIdx < remainingTasks
             THEN LET tasksPerSplit == baseTasksPerSplit + 1
                      startId == splitIdx * tasksPerSplit
                  IN  <<startId, startId + tasksPerSplit>>
             ELSE LET taskOffset == (baseTasksPerSplit + 1) * remainingTasks
                      startId == taskOffset + (splitIdx - remainingTasks) * baseTasksPerSplit
                  IN  <<startId, startId + baseTasksPerSplit>>

(***************************************************************************)
(* The KV-head range the constructor derives from the Q-head range.        *)
(***************************************************************************)
kvHeadRangeNoRound(startQ, endQ, attHeadNum, kvHeadNum) ==
    LET expandFactor == CDiv(attHeadNum, kvHeadNum)
    IN  <<CDiv(startQ, expandFactor), CDiv(endQ, expandFactor)>>

kvHeadRange(startQ, endQ, attHeadNum, kvHeadNum) ==
    LET expandFactor == CDiv(attHeadNum, kvHeadNum)
    IN  <<CDiv(startQ, expandFactor), CDiv(endQ - 1, expandFactor) + 1>>

(***************************************************************************)
(* REQUIRES(assertion, ...): whether execution goes on; when the assertion *)
(* is false the macro logs and terminates the process.                     *)
(***************************************************************************)
REQUIRES(assertion) == assertion

(***************************************************************************)
(* Attention::Attention(layerId, ctx) for layer l in the process with      *)
(* splitIdx r.  On attHeadNum % kvHeadNum != 0 it prints and calls exit.   *)
(***************************************************************************)
ctorSupportedLoose(attHeadNum, kvHeadNum) ==
    attHeadNum >= kvHeadNum

ctorSupported(attHeadNum, kvHeadNum) ==
    CMod(attHeadNum, kvHeadNum) = 0

Construct(r, l) ==
    /\ proc[r] = "running"
    /\ att[r][l].st = "none"
    /\ IF l = 0 THEN TRUE ELSE mlp[r][l - 1].st = "ready"
    /\ IF ctorSupported(ctx.attHeadNum, ctx.kvHeadNum)
       THEN LET range == getTaskRange(ctx.attHeadNum, ctx.numSplit, r)
                kv == kvHeadRange(range[1], range[2], ctx.attHeadNum, ctx.kvHeadNum)
            IN  /\ att' = [att EXCEPT ![r][l] = [st |-> "constructed", layerId |-> l,
                                                 startQHead |-> range[1], endQHead |-> range[2],
                                                 startKVHead |-> kv[1], endKVHead |-> kv[2],
                                                 attnOutputBias |-> Empty]]
                /\ proc' = proc
       ELSE /\ proc' = [proc EXCEPT ![r] = "exited"]
            /\ att' = att
    /\ UNCHANGED <<normBuf, region, ctx, tpl, wts, ranks, mlp, reserved1, presentKey, presentValue, step, pos, call, mcall>>

(***************************************************************************)
(* Attention::setWeights, the part that stores the output bias: rank 0     *)
(* copies attnOutBias, every other rank stores hiddenSize zeros; without   *)
(* attnOutBias the vector keeps Size() 0.                                  *)
(***************************************************************************)
HiddenSize == 2

Zeros == [i \in 1..HiddenSize |-> 0]

storeOutputBiasAllRanks(attnOutBias, splitIdx) ==
    IF attnOutBias # NullPtr THEN attnOutBias ELSE Empty

storeOutputBias(attnOutBias, splitIdx) ==
    IF attnOutBias # NullPtr
    THEN IF splitIdx = 0 THEN attnOutBias ELSE Zeros
    ELSE Empty

AttnSetWeights(r, l) ==
    /\ proc[r] = "running"
    /\ att[r][l].st = "constructed"
    /\ att' = [att EXCEPT ![r][l].st = "ready",
                          ![r][l].attnOutputBias = storeOutputBias(wts.attnOutBias, r)]
    /\ UNCHANGED <<normBuf, region, ctx, tpl, wts, ranks, proc, mlp, reserved1, presentKey, presentValue, step, pos, call, mcall>>

(***************************************************************************)
(* LlamaMLP::setWeights: REQUIRES(ctx->actType == SILU) comes first.       *)
(***************************************************************************)
actSupported(actType) ==
    actType = SILU

(* SplitUtil::getTaskRange(N, splits, splitIdx): the columns of the intermediate
   dimension a rank owns *)
splitTaskRange(N, splits, splitIdx) ==
    getTaskRange(N, splits, splitIdx)

(* the columns first .. first+cols-1 of the gate (up) weight, one name per column *)
weightCols(which, first, cols) ==
    [j \in 1..cols |-> <<which, first + j - 1>>]

(* catGateUpWeights: every row of catWeights is the row of the gate weight followed
   by the row of the up weight, so its columns are the gate columns, then the up ones *)
catGateUpWeightsUpFirst(gateWeight, upWeight) ==
    upWeight \o gateWeight

catGateUpWeights(gateWeight, upWeight) ==
    gateWeight \o upWeight

(* the LlamaMLP object setWeights leaves behind *)
mlpWeights(imSize, numSplit, splitIdx, catMLP) ==
    LET it == splitTaskRange(imSize, numSplit, splitIdx)
        cols == it[2] - it[1]
        quantizedGateWeight == weightCols("gate", it[1], cols)
        quantizedUpWeight == weightCols("up", it[1], cols)
    IN  [st |-> "ready",
         gateWeight |-> IF catMLP THEN <<>> ELSE quantizedGateWeight,
         upWeight |-> IF catMLP THEN <<>> ELSE quantizedUpWeight,
         catWeights |-> IF catMLP THEN catGateUpWeights(quantizedGateWeight, quantizedUpWeight)
                        ELSE <<>>,
         downRows |-> cols]

MlpSetWeights(r, l) ==
    /\ proc[r] = "running"
    /\ att[r][l].st = "ready"
    /\ mlp[r][l].st = "none"
    /\ IF REQUIRES(actSupported(ctx.actType))
       THEN /\ mlp' = [mlp EXCEPT ![r][l] =
                         mlpWeights(ctx.intermediateSize, ctx.numSplit, r, tpl.catMLP)]
            /\ proc' = proc
       ELSE /\ proc' = [proc EXCEPT ![r] = "exited"]
            /\ mlp' = mlp
    /\ UNCHANGED <<normBuf, region, ctx, tpl, wts, ranks, att, reserved1, presentKey, presentValue, step, pos, call, mcall>>

(***************************************************************************)
(* The driver: once every rank has its layers ready and has finished the   *)
(* previous step, it starts the next forward on all ranks: a prefill       *)
(* first, then decode steps whose pastSeqLen is the length so far.         *)
(***************************************************************************)
MaxSeq == 3
MaxTotal == 4

AllReady ==
    \A r \in ranks : /\ proc[r] = "running"
                     /\ \A l \in Layers : att[r][l].st = "ready" /\ mlp[r][l].st = "ready"

BeginStep(S) ==
    /\ AllReady
    /\ \A r \in ranks : IF step.n = 0 THEN TRUE ELSE pos[r] = 2 * ctx.layers
    /\ step.pastSeqLen + step.inputSeqLen + S <= MaxTotal
    /\ step' = [n |-> step.n + 1, inputSeqLen |-> S,
                pastSeqLen |-> step.pastSeqLen + step.inputSeqLen]
    /\ pos' = [r \in ranks |-> 0]
    /\ UNCHANGED <<normBuf, region, ctx, tpl, wts, ranks, proc, att, mlp, reserved1, presentKey, presentValue, call, mcall>>

(***************************************************************************)
(* The kernel Attention::forward calls.                                    *)
(***************************************************************************)
selectKernelNoPastCheck(pastSeqLen, inputSeqLen, flashThresh, bf16) ==
    IF inputSeqLen > flashThresh THEN "flashAttention"
    ELSE IF bf16 THEN "selfAttentionBF16"
    ELSE "fusedAttention"

selectKernel(pastSeqLen, inputSeqLen, flashThresh, bf16) ==
    IF pastSeqLen = 0
    THEN IF inputSeqLen > flashThresh THEN "flashAttention"
         ELSE IF bf16 THEN "selfAttentionBF16"
         ELSE "fusedAttention"
    ELSE "fusedAttention"

(***************************************************************************)
(* Attention::getMBlockSize(inputSeqLen, headSize, minVal = 6); sizeofImT  *)
(* is sizeof(ImT).  std::ceil of the float quotient is the integer ceiling.*)
(***************************************************************************)
l2CacheSize == 2097152

getMBlockSize(inputSeqLen, headSize, sizeofImT) ==
    IF inputSeqLen = 1 THEN 1
    ELSE LET minVal == 6
             qkvSize == inputSeqLen * headSize
             scoreSize == inputSeqLen * inputSeqLen
             capacity == CDiv(l2CacheSize, sizeofImT)
             splits0 == IF capacity <= 2 * qkvSize THEN 1
                        ELSE CDiv(2 * qkvSize + scoreSize + (capacity - 2 * qkvSize) - 1,
                                  capacity - 2 * qkvSize)
             splits == IF splits0 <= 0 THEN 1 ELSE splits0
             mBlockSize == CDiv(inputSeqLen + splits - 1, splits)
         IN  IF mBlockSize <= 0 THEN (IF inputSeqLen > minVal THEN minVal ELSE inputSeqLen)
             ELSE IF mBlockSize > inputSeqLen THEN inputSeqLen
             ELSE mBlockSize

sizeofImT == IF tpl.bf16 THEN 2 ELSE 4

(***************************************************************************)
(* The KV cache of one layer: cell <<seqIdx, batchIdx, headIdx>> is the    *)
(* row getSequence(seqIdx, batchIdx, headIdx) returns.  The key (value)    *)
(* matrix of a call has batchSize*inputSeqLen rows; row b*S+seq holds, per *)
(* head, the K (V) of token pastSeqLen+seq of batch item b.                *)
(***************************************************************************)
Cells == (0..(MaxTotal - 1)) \X (0..(ctx.batchSize - 1)) \X (0..(ctx.kvHeadNum - 1))

EmptyCache == [c \in Cells |-> Junk]

Tok(kind, b, p, h) == <<kind, b, p, h>>

qkvBlock(kind, row, h, S, past) ==
    IF row >= 0 /\ row < ctx.batchSize * S
    THEN Tok(kind, row \div S, past + (row % S), h)
    ELSE Junk

(* copyKVCache(ctx, key, value, presentKey, presentValue, pastSeqLen), for one of the two *)
copyKVCacheAtZero(cache, kind, nKV, past, S) ==
    [c \in DOMAIN cache |->
        LET seq == c[1]
        IN  IF c[2] < ctx.batchSize /\ c[3] < nKV /\ seq >= 0 /\ seq < S
            THEN qkvBlock(kind, c[2] * S + seq, c[3], S, past)
            ELSE cache[c]]

copyKVCache(cache, kind, nKV, past, S) ==
    [c \in DOMAIN cache |->
        LET seq == c[1] - past
        IN  IF c[2] < ctx.batchSize /\ c[3] < nKV /\ seq >= 0 /\ seq < S
            THEN qkvBlock(kind, c[2] * S + seq, c[3], S, past)
            ELSE cache[c]]

(* copyKVCache(ctx, kv, presentKV, pastSeqLen, bdx, hdx): one head of one batch item *)
copyKVCacheHead(cache, kind, past, S, bdx, hdx) ==
    [c \in DOMAIN cache |->
        LET seq == c[1] - past
        IN  IF c[2] = bdx /\ c[3] = hdx /\ seq >= 0 /\ seq < S
            THEN qkvBlock(kind, bdx * S + seq, hdx, S, past)
            ELSE cache[c]]

(* the copy loop that ends flashAttention *)
flashCopy(cache, kind, nKV, past, S) ==
    LET tgtLen == past + S
    IN  [c \in DOMAIN cache |->
            LET seq == c[1] - past
            IN  IF c[2] < ctx.batchSize /\ c[3] < nKV /\ seq >= 0 /\ seq < tgtLen
                THEN qkvBlock(kind, c[2] * tgtLen + seq, c[3], S, past)
                ELSE cache[c]]

(* xft::selfAttention writes the K (V) of every token through the callbacks *)
selfAttentionFill(cache, kind, nKV, S) ==
    [c \in DOMAIN cache |->
        IF c[2] < ctx.batchSize /\ c[3] < nKV /\ c[1] < S
        THEN Tok(kind, c[2], c[1], c[3])
        ELSE cache[c]]

(***************************************************************************)
(* The attention kernels, as what they leave behind: whether the process   *)
(* ended (exit(-1), or a division by zero), ctx->reserved1, the inner      *)
(* kernel fusedAttention chose, whether K and V were copied before the     *)
(* parallel region, and the two caches.                                    *)
(***************************************************************************)
KernelResult(kernel, inner, exits, res1, kvCopied, mBlockSize, pk, pv) ==
    [kernel |-> kernel, inner |-> inner, exits |-> exits, reserved1 |-> res1,
     kvCopied |-> kvCopied, mBlockSize |-> mBlockSize, pk |-> pk, pv |-> pv]

(* the tiles (b, i, mb) of slimAttention that copy their head themselves, in loop order *)
RECURSIVE slimLazyCopy(_, _, _, _, _, _)
slimLazyCopy(cache, kind, past, S, responsibleHeads, task) ==
    IF task >= ctx.batchSize * responsibleHeads THEN cache
    ELSE slimLazyCopy(copyKVCacheHead(cache, kind, past, S, task \div responsibleHeads,
                                      task % responsibleHeads),
                      kind, past, S, responsibleHeads, task + 1)

slimAttention(a, res1, pk, pv, past, S, mBlockSize, kvCopied) ==
    LET responsibleHeads == a.endQHead - a.startQHead
    IN  IF mBlockSize = 0
        THEN KernelResult("fusedAttention", "slimAttention", TRUE, res1, kvCopied, mBlockSize, pk, pv)
        ELSE KernelResult("fusedAttention", "slimAttention", FALSE, res1, kvCopied, mBlockSize,
                          IF kvCopied THEN pk ELSE slimLazyCopy(pk, "K", past, S, responsibleHeads, 0),
                          IF kvCopied THEN pv ELSE slimLazyCopy(pv, "V", past, S, responsibleHeads, 0))

crossAttnShardHead(a, res1, pk, pv, past, S, mBlockSize) ==
    LET responsibleHeads == a.endQHead - a.startQHead
        tasks == ctx.batchSize * responsibleHeads
        splits == CDiv(ctx.numThreads, tasks)
        goesOn == /\ tasks # 0
                  /\ REQUIRES(splits > 1)
                  /\ REQUIRES(CMod(ctx.attHeadSize, 16) = 0)
    IN  KernelResult("fusedAttention", "crossAttnShardHead", ~goesOn, res1, TRUE, mBlockSize, pk, pv)

shardHeadOf(inputSeqLen, numThreads, batchSize, responsibleHeads) ==
    inputSeqLen = 1 /\ numThreads >= batchSize * responsibleHeads * 2

(* int &mBlockSize = ctx->reserved1 after the first statement of fusedAttention *)
stageFirst(layerId) ==
    CMod(layerId, CDiv(ctx.layers, ctx.ppSize)) = 0

blockSizeOfAlwaysSplit(layerId, res1, past, S) ==
    IF stageFirst(layerId)
    THEN getMBlockSize(S, ctx.attHeadSize, sizeofImT)
    ELSE res1

blockSizeOfPrefillOnly(layerId, res1, past, S) ==
    IF stageFirst(layerId) /\ past = 0
    THEN getMBlockSize(S, ctx.attHeadSize, sizeofImT)
    ELSE res1

blockSizeOf(layerId, res1, past, S) ==
    IF stageFirst(layerId)
    THEN (IF past = 0 THEN getMBlockSize(S, ctx.attHeadSize, sizeofImT) ELSE S)
    ELSE res1

(* whether fusedAttention copies the current K and V before the parallel region *)
kvCopiedOfNoSplitCheck(kvHeadNum, attHeadNum, mBlockSize, inputSeqLen, shardHead) ==
    kvHeadNum < attHeadNum \/ shardHead

kvCopiedOf(kvHeadNum, attHeadNum, mBlockSize, inputSeqLen, shardHead) ==
    kvHeadNum < attHeadNum \/ mBlockSize # inputSeqLen \/ shardHead

fusedAttention(a, res1, pk, pv, past, S) ==
    LET responsibleHeads == a.endQHead - a.startQHead
        nKV == a.endKVHead - a.startKVHead
        mBlockSize == blockSizeOf(a.layerId, res1, past, S)
        shardHead == shardHeadOf(S, ctx.numThreads, ctx.batchSize, responsibleHeads)
        kvCopied == kvCopiedOf(ctx.kvHeadNum, ctx.attHeadNum, mBlockSize, S, shardHead)
        pk1 == IF kvCopied THEN copyKVCache(pk, "K", nKV, past, S) ELSE pk
        pv1 == IF kvCopied THEN copyKVCache(pv, "V", nKV, past, S) ELSE pv
    IN  IF ~shardHead
        THEN slimAttention(a, mBlockSize, pk1, pv1, past, S, mBlockSize, kvCopied)
        ELSE crossAttnShardHead(a, mBlockSize, pk1, pv1, past, S, mBlockSize)

flashAttention(a, res1, pk, pv, past, S) ==
    LET nKV == a.endKVHead - a.startKVHead
    IN  KernelResult("flashAttention", Null, FALSE, res1, FALSE, 0,
                     flashCopy(pk, "K", nKV, past, S), flashCopy(pv, "V", nKV, past, S))

bf16SupportedAlways(responsibleQHeads, responsibleKVHeads) ==
    TRUE

bf16Supported(responsibleQHeads, responsibleKVHeads) ==
    responsibleKVHeads = responsibleQHeads

selfAttentionBF16(a, res1, pk, pv, S) ==
    LET responsibleQHeads == a.endQHead - a.startQHead
        responsibleKVHeads == a.endKVHead - a.startKVHead
    IN  IF ~bf16Supported(responsibleQHeads, responsibleKVHeads)
        THEN KernelResult("selfAttentionBF16", Null, TRUE, res1, FALSE, 0, pk, pv)
        ELSE KernelResult("selfAttentionBF16", Null, FALSE, res1, FALSE, 0,
                          selfAttentionFill(pk, "K", responsibleKVHeads, S),
                          selfAttentionFill(pv, "V", responsibleKVHeads, S))

runKernel(a, res1, pk, pv, past, S) ==
    LET kernel == selectKernel(past, S, tpl.flashThresh, tpl.bf16)
    IN  CASE kernel = "flashAttention" -> flashAttention(a, res1, pk, pv, past, S)
          [] kernel = "selfAttentionBF16" -> selfAttentionBF16(a, res1, pk, pv, S)
          [] OTHER -> fusedAttention(a, res1, pk, pv, past, S)

(***************************************************************************)
(* The output projection that ends Attention::forward: which matmul helper *)
(* entry is called, with which bias pointer, residual scale and residual.  *)
(***************************************************************************)
Gemm(entry, bias, gamma, residual) ==
    [gemm |-> entry, bias |-> bias, gamma |-> gamma, residual |-> residual]

outputProjectionEveryRank(a, splitIdx) ==
    LET pbias == IF Len(a.attnOutputBias) = 0 THEN NullPtr ELSE a.attnOutputBias
        residual == IF tpl.inputAsResid THEN "input" ELSE "imBuf"
    IN  IF tpl.gamma = 1
        THEN Gemm("compute_residential", pbias, 1, residual)
        ELSE Gemm("compute_resext", pbias, tpl.gamma, residual)

outputProjection(a, splitIdx) ==
    LET pbias == IF Len(a.attnOutputBias) = 0 THEN NullPtr ELSE a.attnOutputBias
        residual == IF tpl.inputAsResid THEN "input" ELSE "imBuf"
    IN  IF splitIdx = 0
        THEN IF tpl.gamma = 1
             THEN Gemm("compute_residential", pbias, 1, residual)
             ELSE Gemm("compute_resext", pbias, tpl.gamma, residual)
        ELSE IF Len(a.attnOutputBias) = 0
             THEN Gemm("compute", NullPtr, 0, Null)
             ELSE Gemm("compute_bias", a.attnOutputBias, 0, Null)

(* the matmul helper: how many times the residual and which bias a call adds to A*B *)
mmResidualCoef(g) ==
    CASE g.gemm = "compute_residential" -> 1
      [] g.gemm = "compute_resext" -> g.gamma
      [] OTHER -> 0

mmBias(g) ==
    IF g.gemm \in {"compute_residential", "compute_resext", "compute_bias"} /\ g.bias # NullPtr
    THEN g.bias
    ELSE Zeros

(***************************************************************************)
(* The post-op on Q and K in Attention::forward: the position ids of each  *)
(* qkpo.forward call it makes, in order.                                   *)
(***************************************************************************)
(* what the caller passes as positionIds: nullptr, or ids of its own *)
callerPositionIds(customPos, past, S) ==
    IF customPos THEN [i \in 1..S |-> 2 * (past + i - 1) + 1] ELSE NullPtr

defaultPosIds(past, S) ==
    IF S = 1 THEN <<past>> ELSE [i \in 1..S |-> past + i - 1]

qkPostOpDefaultOnly(positionIds, maxPosEmbed, past, S) ==
    IF maxPosEmbed > 0 THEN <<defaultPosIds(past, S)>> ELSE <<>>

qkPostOp(positionIds, maxPosEmbed, past, S) ==
    IF positionIds # NullPtr THEN <<positionIds>>
    ELSE IF maxPosEmbed > 0 THEN <<defaultPosIds(past, S)>>
    ELSE <<>>

(***************************************************************************)
(* Attention::forward of the next layer of process r, for the step the     *)
(* driver started: norm, QKV linear, post-op, the kernel, the projection.  *)
(***************************************************************************)
AttnForward(r) ==
    /\ step.n > 0
    /\ proc[r] = "running"
    /\ pos[r] < 2 * ctx.layers
    /\ pos[r] % 2 = 0
    /\ LET l == pos[r] \div 2
           a == att[r][l]
           res == runKernel(a, reserved1[r], presentKey[r][l], presentValue[r][l],
                            step.pastSeqLen, step.inputSeqLen)
       IN  /\ reserved1' = [reserved1 EXCEPT ![r] = res.reserved1]
           /\ presentKey' = [presentKey EXCEPT ![r][l] = res.pk]
           /\ presentValue' = [presentValue EXCEPT ![r][l] = res.pv]
           /\ call' = [call EXCEPT ![r][l] =
                         [n |-> step.n, inputSeqLen |-> step.inputSeqLen,
                          pastSeqLen |-> step.pastSeqLen,
                          kernels |-> <<res.kernel>>, inner |-> res.inner,
                          kvCopied |-> res.kvCopied, mBlockSize |-> res.mBlockSize,
                          postOps |-> qkPostOp(callerPositionIds(tpl.customPos, step.pastSeqLen,
                                                                 step.inputSeqLen),
                                               ctx.maxPosEmbed, step.pastSeqLen,
                                               step.inputSeqLen),
                          out |-> IF res.exits THEN NoGemm ELSE outputProjection(a, r),
                          postNorm |-> ~res.exits /\ ~tpl.doLnBefore]]
           /\ proc' = IF res.exits THEN [proc EXCEPT ![r] = "exited"] ELSE proc
           /\ pos' = IF res.exits THEN pos ELSE [pos EXCEPT ![r] = @ + 1]
    /\ UNCHANGED <<normBuf, region, ctx, tpl, wts, ranks, att, mlp, step, mcall>>

(***************************************************************************)
(* LlamaMLP::forward of the layer whose attention process r just ran.      *)
(***************************************************************************)
downProj(isMaster) ==
    IF isMaster
    THEN Gemm("compute_residential", NullPtr, 1, "input")
    ELSE Gemm("compute", NullPtr, 0, Null)

(* Tensors as terms: the input of the MLP of layer l in step n, its RMSNorm, and what
   the matmul helper entries and siluSum compute from them, column by column. *)
InputOf(n, l) == <<"input", n, l>>

rmsNorm(x) == <<"rmsNorm", x>>

Dot(x, w) == <<"dot", x, w>>

Silu(t) == <<"silu", t>>

Mul(a, b) == <<"mul", {a, b}>>

compute(A, B) ==
    [j \in 1..Len(B) |-> Dot(A, B[j])]

compute_silu(A, B) ==
    [j \in 1..Len(B) |-> Silu(Dot(A, B[j]))]

compute_resmul(A, B, res) ==
    [j \in 1..Len(B) |-> Mul(Dot(A, B[j]), res[j])]

siluSum(src) ==
    LET cols == Len(src) \div 2
    IN  [j \in 1..cols |-> Mul(Silu(src[j]), src[j + cols])]

(* gateProj then upProj: imBuffer = silu(input * gateWeight), then
   imBuffer = (input * upWeight) * imBuffer *)
gateProj(input, m) ==
    compute_silu(input, m.gateWeight)

upProj(input, m, imBuffer) ==
    compute_resmul(input, m.upWeight, imBuffer)

(* catGateUpProj: one GEMM with catWeights, then siluSum into siluBuf *)
catGateUpProj(input, m) ==
    siluSum(compute(input, m.catWeights))

(* the assertion of downProj on the columns of its input *)
downProjAssert(inputCols, downRows, catMLP) ==
    IF ~catMLP THEN inputCols = downRows ELSE inputCols = 2 * downRows

(* LlamaMLP::forward as what it leaves behind: whether normBuf was written, the tensor
   the projections read, the tensor handed to downProj, whether an assertion stopped
   the process (a build with assertions), and the downProj call *)
mlpForwardStaleNorm(m, input, oldNormBuf, doLnBefore, catMLP, asserts, isMaster) ==
    LET projInput == IF doLnBefore THEN oldNormBuf ELSE input
        act == IF ~catMLP
               THEN upProj(projInput, m, gateProj(projInput, m))
               ELSE catGateUpProj(projInput, m)
    IN  [normBuf |-> oldNormBuf, aborts |-> FALSE,
         mcall |-> [n |-> step.n,
                    projIn |-> IF doLnBefore THEN "normBuf" ELSE "input",
                    path |-> IF catMLP THEN "catGateUpProj" ELSE "gateProj,upProj",
                    normWritten |-> FALSE,
                    act |-> act,
                    out |-> downProj(isMaster)]]

mlpForward(m, input, oldNormBuf, doLnBefore, catMLP, asserts, isMaster) ==
    LET normBuffer == IF doLnBefore THEN rmsNorm(input) ELSE oldNormBuf
        projInput == IF doLnBefore THEN normBuffer ELSE input
        act == IF ~catMLP
               THEN upProj(projInput, m, gateProj(projInput, m))
               ELSE catGateUpProj(projInput, m)
        aborts == asserts /\ ~downProjAssert(Len(act), m.downRows, catMLP)
    IN  [normBuf |-> normBuffer, aborts |-> aborts,
         mcall |-> [n |-> step.n,
                    projIn |-> IF doLnBefore THEN "normBuf" ELSE "input",
                    path |-> IF catMLP THEN "catGateUpProj" ELSE "gateProj,upProj",
                    normWritten |-> doLnBefore,
                    act |-> act,
                    out |-> IF aborts THEN NoGemm ELSE downProj(isMaster)]]

MlpForward(r) ==
    /\ step.n > 0
    /\ proc[r] = "running"
    /\ pos[r] < 2 * ctx.layers
    /\ pos[r] % 2 = 1
    /\ LET l == pos[r] \div 2
           res == mlpForward(mlp[r][l], InputOf(step.n, l), normBuf[r], tpl.doLnBefore,
                             tpl.catMLP, tpl.asserts, r = 0)
       IN  /\ mcall' = [mcall EXCEPT ![r][l] = res.mcall]
           /\ normBuf' = [normBuf EXCEPT ![r] = res.normBuf]
           /\ proc' = IF res.aborts THEN [proc EXCEPT ![r] = "exited"] ELSE proc
           /\ pos' = IF res.aborts THEN pos ELSE [pos EXCEPT ![r] = @ + 1]
    /\ UNCHANGED <<region, ctx, tpl, wts, ranks, att, mlp, reserved1, presentKey, presentValue, step, call>>

(***************************************************************************)
(* The state after the processes rs of a group start with context c,       *)
(* build parameters t and weights w.                                       *)
(***************************************************************************)
Start(c, t, w, rs) ==
    /\ ctx = c
    /\ tpl = t
    /\ wts = w
    /\ ranks = rs
    /\ proc = [r \in rs |-> "running"]
    /\ att = [r \in rs |-> [l \in Layers |-> NoAttention]]
    /\ mlp = [r \in rs |-> [l \in Layers |-> NoMLP]]
    /\ reserved1 = [r \in rs |-> 0]
    /\ presentKey = [r \in rs |-> [l \in Layers |-> EmptyCache]]
    /\ presentValue = [r \in rs |-> [l \in Layers |-> EmptyCache]]
    /\ step = NoStep
    /\ pos = [r \in rs |-> 0]
    /\ call = [r \in rs |-> [l \in Layers |-> NoCall]]
    /\ mcall = [r \in rs |-> [l \in Layers |-> NoMCall]]
    /\ normBuf = [r \in rs |-> Junk]

BaseCtx ==
    [attHeadNum |-> 2, kvHeadNum |-> 2, numSplit |-> 1, batchSize |-> 1, numThreads |-> 1,
     attHeadSize |-> 16, actType |-> SILU, layers |-> 1, ppSize |-> 1, intermediateSize |-> 2,
     maxPosEmbed |-> 8]

BaseTpl ==
    [bf16 |-> FALSE, flashThresh |-> 2, gamma |-> 1, inputAsResid |-> TRUE,
     doLnBefore |-> TRUE, catMLP |-> FALSE, asserts |-> FALSE,
     customPos |-> FALSE]

NoWeights == [attnOutBias |-> NullPtr]

(***************************************************************************)
(* SpecRange: every rank of a group constructs its Attention object.       *)
(***************************************************************************)
InitRange ==
    \E h \in 1..MaxHeads, k \in 1..MaxHeads, n \in 1..MaxSplit :
        Start([BaseCtx EXCEPT !.attHeadNum = h, !.kvHeadNum = k, !.numSplit = n],
              BaseTpl, NoWeights, 0..(n - 1))
        /\ region = NoRegion

NextRange ==
    \E r \in ranks : Construct(r, 0)

SpecRange == InitRange /\ [][NextRange]_vars

(***************************************************************************)
(* Spec: one process of a group, from the construction of its layers on    *)
(* through a prefill and the decode steps that follow.                     *)
(***************************************************************************)
LayerHeads == 4

SplitChoices == {<<1, 0>>, <<2, 0>>, <<2, 1>>, <<3, 1>>}

Init ==
    \E h \in 1..LayerHeads, k \in 1..LayerHeads, sp \in SplitChoices, b \in {1, 2},
       th \in {1, 8}, bf \in BOOLEAN, ft \in 1..(MaxSeq - 1), ly \in {1, 2} :
        Start([BaseCtx EXCEPT !.attHeadNum = h, !.kvHeadNum = k, !.numSplit = sp[1],
                              !.batchSize = b, !.numThreads = th, !.layers = ly],
              [BaseTpl EXCEPT !.bf16 = bf, !.flashThresh = ft], NoWeights, {sp[2]})
        /\ region = NoRegion

Next ==
    \/ \E r \in ranks, l \in Layers : Construct(r, l)
    \/ \E r \in ranks, l \in Layers : AttnSetWeights(r, l)
    \/ \E r \in ranks, l \in Layers : MlpSetWeights(r, l)
    \/ \E S \in 1..MaxSeq : BeginStep(S)
    \/ \E r \in ranks : AttnForward(r)
    \/ \E r \in ranks : MlpForward(r)

Spec == Init /\ [][Next]_vars

(***************************************************************************)
(* Claims about the head ranges (checked under SpecRange).                 *)
(***************************************************************************)
Constructed(r) == att[r][0].st # "none"

QSize(r) == att[r][0].endQHead - att[r][0].startQHead

(* C1: the Q-head ranges of the ranks 0..numSplit-1 are contiguous in rank order,
   pairwise disjoint and cover exactly [0, attHeadNum); each has
   floor(attHeadNum/numSplit) heads, the first attHeadNum mod numSplit ranks one
   more; attHeadNum=8, numSplit=2 gives [0,4) and [4,8). *)
C1_QHeadRangesPartition ==
    \A r \in ranks :
        Constructed(r) =>
            LET a == att[r][0]
                N == ctx.attHeadNum
                base == N \div ctx.numSplit
                rem == N % ctx.numSplit
            IN  /\ QSize(r) = base + (IF r < rem THEN 1 ELSE 0)
                /\ 0 <= a.startQHead /\ a.startQHead <= a.endQHead /\ a.endQHead <= N
                /\ (r = 0 => a.startQHead = 0)
                /\ (r = ctx.numSplit - 1 => a.endQHead = N)
                /\ \A r2 \in ranks :
                       (Constructed(r2) /\ r2 = r + 1) => att[r2][0].startQHead = a.endQHead
                /\ \A r2 \in ranks :
                       (Constructed(r2) /\ r2 # r) =>
                           \A q \in 0..(N - 1) :
                               ~(/\ a.startQHead <= q /\ q < a.endQHead
                                 /\ att[r2][0].startQHead <= q /\ q < att[r2][0].endQHead)
                /\ ((\A r2 \in ranks : Constructed(r2)) =>
                       \A q \in 0..(N - 1) :
                           \E r2 \in ranks : att[r2][0].startQHead <= q /\ q < att[r2][0].endQHead)
                /\ ((N = 8 /\ ctx.numSplit = 2) =>
                       <<a.startQHead, a.endQHead>> = (IF r = 0 THEN <<0, 4>> ELSE <<4, 8>>))

(* an uneven split, every rank constructed *)
C1_Witness ==
    /\ ctx.attHeadNum = 7 /\ ctx.numSplit = 3
    /\ \A r \in ranks : Constructed(r)
    /\ QSize(0) = 3 /\ QSize(2) = 2

(* C2: startKVHead = startQHead*kvHeadNum/attHeadNum, endKVHead =
   ((endQHead-1)*kvHeadNum/attHeadNum)+1 in integer division, and for a rank with a
   non-empty Q range the KV range is exactly the set of KV heads q/(attHeadNum/kvHeadNum)
   of its Q heads q. *)
C2_KVHeadRange ==
    \A r \in ranks :
        Constructed(r) =>
            LET a == att[r][0]
                expandFactor == ctx.attHeadNum \div ctx.kvHeadNum
            IN  /\ a.startKVHead = CDiv(a.startQHead * ctx.kvHeadNum, ctx.attHeadNum)
                /\ a.endKVHead = CDiv((a.endQHead - 1) * ctx.kvHeadNum, ctx.attHeadNum) + 1
                /\ (a.endQHead > a.startQHead =>
                       a.startKVHead..(a.endKVHead - 1)
                           = {q \div expandFactor : q \in a.startQHead..(a.endQHead - 1)})

(* a grouped-query rank whose Q range starts inside a group and spans two KV heads *)
C2_Witness ==
    \E r \in ranks :
        /\ Constructed(r)
        /\ ctx.kvHeadNum < ctx.attHeadNum
        /\ att[r][0].startQHead % (ctx.attHeadNum \div ctx.kvHeadNum) # 0
        /\ att[r][0].endKVHead - att[r][0].startKVHead = 2

(***************************************************************************)
(* SpecFatal: one process over the configurations that break a fatal       *)
(* precondition (head counts, activation, head size) and those that do not.*)
(***************************************************************************)
FatalHeads == 3

InitFatal ==
    \E h \in 1..FatalHeads, k \in 1..FatalHeads, act \in {SILU, GELU}, hs \in {8, 16, 24},
       th \in {1, 4, 8}, b \in {1, 2} :
        Start([BaseCtx EXCEPT !.attHeadNum = h, !.kvHeadNum = k, !.actType = act,
                              !.attHeadSize = hs, !.numThreads = th, !.batchSize = b],
              BaseTpl, NoWeights, {0})
        /\ region = NoRegion

SpecFatal == InitFatal /\ [][Next]_vars

(* what process r holds: its objects, caches, position and call records *)
ProcState(r) ==
    <<proc[r], att[r], mlp[r], reserved1[r], presentKey[r], presentValue[r], pos[r],
      call[r], mcall[r]>>

(* no operation whose fatal precondition is broken ever completes *)
CompletedImpliesPrecondition ==
    \A r \in ranks : \A l \in Layers :
        /\ att[r][l].st # "none" => ctx.attHeadNum % ctx.kvHeadNum = 0
        /\ mlp[r][l].st # "none" => ctx.actType = SILU
        /\ (call[r][l].n > 0 /\ call[r][l].inner = "crossAttnShardHead" /\ call[r][l].out.gemm # "none")
               => ctx.attHeadSize % 16 = 0

(* a step of process r on a broken precondition ends the process: the constructor
   (the first thing a process runs), LlamaMLP::setWeights (what runs once the layer's
   attention is ready), crossAttnShardHead (the inner kernel the forward call entered) *)
FatalStepExits ==
    \A r \in ranks :
        ProcState(r)' # ProcState(r) =>
            /\ ctx.attHeadNum % ctx.kvHeadNum # 0 =>
                   proc'[r] = "exited" /\ att'[r] = att[r]
            /\ \A l \in Layers :
                   (ctx.actType # SILU /\ att[r][l].st = "ready") =>
                       proc'[r] = "exited" /\ mlp'[r] = mlp[r]
            /\ \A l \in Layers :
                   (/\ ctx.attHeadSize % 16 # 0
                    /\ call'[r][l] # call[r][l]
                    /\ call'[r][l].inner = "crossAttnShardHead") =>
                       proc'[r] = "exited" /\ call'[r][l].out.gemm = "none" /\ pos'[r] = pos[r]

(* a process that has exited does nothing more *)
ExitIsFinal ==
    \A r \in ranks : proc[r] = "exited" => ProcState(r)' = ProcState(r)

(* C3: constructing an Attention with attHeadNum % kvHeadNum != 0, LlamaMLP::setWeights
   with an activation other than SiLU and crossAttnShardHead with attHeadSize % 16 != 0
   each terminate the process: the operation never completes and never hands control
   back to the caller. *)
C3_FatalPreconditionsTerminate ==
    /\ []CompletedImpliesPrecondition
    /\ [][FatalStepExits /\ ExitIsFinal]_vars

(* the process has exited inside crossAttnShardHead on a head size of 8 or 24 *)
C3_Witness ==
    \E r \in ranks :
        /\ proc[r] = "exited"
        /\ call[r][0].inner = "crossAttnShardHead"
        /\ ctx.attHeadSize % 16 # 0
        /\ ctx.numThreads \div (ctx.batchSize * (att[r][0].endQHead - att[r][0].startQHead)) > 1

C3_WitnessCtor ==
    \E r \in ranks : proc[r] = "exited" /\ ctx.attHeadNum % ctx.kvHeadNum # 0

C3_WitnessMlp ==
    \E r \in ranks : proc[r] = "exited" /\ ctx.actType # SILU /\ att[r][0].st = "ready"

(***************************************************************************)
(* Claims about the kernel dispatch (checked under Spec).                  *)
(***************************************************************************)
Called(r, l) == call[r][l].n > 0

(* C4: forward invokes exactly one attention kernel per call: flashAttention when
   pastSeqLen == 0 and inputSeqLen > flashThresh, otherwise selfAttentionBF16 when
   pastSeqLen == 0 and the element types are BF16, otherwise fusedAttention; every
   call with pastSeqLen > 0 uses fusedAttention. *)
C4_KernelDispatch ==
    \A r \in ranks : \A l \in Layers :
        Called(r, l) =>
            LET c == call[r][l]
            IN  /\ Len(c.kernels) = 1
                /\ c.kernels[1] =
                       (IF c.pastSeqLen = 0 /\ c.inputSeqLen > tpl.flashThresh
                        THEN "flashAttention"
                        ELSE IF c.pastSeqLen = 0 /\ tpl.bf16 THEN "selfAttentionBF16"
                        ELSE "fusedAttention")
                /\ (c.pastSeqLen > 0 => c.kernels = <<"fusedAttention">>)

(* a decode call of a BF16 layer, longer than the flash threshold *)
C4_Witness ==
    \E r \in ranks : \E l \in Layers :
        /\ Called(r, l)
        /\ call[r][l].pastSeqLen > 0
        /\ call[r][l].inputSeqLen > tpl.flashThresh
        /\ tpl.bf16
        /\ call[r][l].kernels = <<"fusedAttention">>

KVSizeOf(r, l) == att[r][l].endKVHead - att[r][l].startKVHead

QSizeOf(r, l) == att[r][l].endQHead - att[r][l].startQHead

(* C5 as stated: whenever forward selects selfAttentionBF16 the rank's Q-head count
   equals its KV-head count, so a grouped-query rank is never routed to it. *)
C5_OnlyEqualHeadCounts ==
    \A r \in ranks : \A l \in Layers :
        (Called(r, l) /\ call[r][l].kernels = <<"selfAttentionBF16">>) =>
            QSizeOf(r, l) = KVSizeOf(r, l)

(* C5 amended: forward selects selfAttentionBF16 only at prefill (pastSeqLen == 0,
   inputSeqLen <= flashThresh) of a BF16 layer, whatever the head counts; the kernel
   returns only when the rank's Q-head count equals its KV-head count, and on unequal
   counts it terminates the process. *)
C5_EqualHeadCountsOrExit ==
    \A r \in ranks : \A l \in Layers :
        (Called(r, l) /\ call[r][l].kernels = <<"selfAttentionBF16">>) =>
            /\ call[r][l].pastSeqLen = 0
            /\ call[r][l].inputSeqLen > 0
            /\ call[r][l].inputSeqLen <= tpl.flashThresh
            /\ tpl.bf16
            /\ IF QSizeOf(r, l) = KVSizeOf(r, l)
               THEN call[r][l].out.gemm # "none"
               ELSE proc[r] = "exited" /\ call[r][l].out.gemm = "none"

(* a grouped-query rank was routed to selfAttentionBF16 and the process ended there *)
C5_Witness ==
    \E r \in ranks : \E l \in Layers :
        /\ Called(r, l)
        /\ call[r][l].kernels = <<"selfAttentionBF16">>
        /\ QSizeOf(r, l) > KVSizeOf(r, l)
        /\ proc[r] = "exited"

(***************************************************************************)
(* Claims about the KV cache (checked under Spec).                         *)
(***************************************************************************)
Completed(r, l) == call[r][l].n > 0 /\ call[r][l].out.gemm # "none"

(* the cache of layer l on rank r holds the K and V rows of tokens 0..T-1 *)
CacheHolds(r, l, T) ==
    \A b \in 0..(ctx.batchSize - 1) : \A h \in 0..(KVSizeOf(r, l) - 1) : \A p \in 0..(T - 1) :
        /\ presentKey[r][l][<<p, b, h>>] = Tok("K", b, p, h)
        /\ presentValue[r][l][<<p, b, h>>] = Tok("V", b, p, h)

CacheComplete ==
    \A r \in ranks : \A l \in Layers :
        Completed(r, l) => CacheHolds(r, l, call[r][l].pastSeqLen + call[r][l].inputSeqLen)

WritesOnlyNewPositions ==
    \A r \in ranks : \A l \in Layers : \A c \in Cells :
        (presentKey'[r][l][c] # presentKey[r][l][c] \/ presentValue'[r][l][c] # presentValue[r][l][c])
            => (c[1] >= step.pastSeqLen /\ c[1] < step.pastSeqLen + step.inputSeqLen)

(* C8: through a prefill and the decode steps that follow it, after every call the key
   and value caches hold, for every batch index and every KV head of the rank, the K/V
   row of token p at position p for all p below pastSeqLen + S, whichever kernel ran;
   a call writes positions pastSeqLen .. pastSeqLen+S-1 only. *)
C8_CacheComplete ==
    /\ []CacheComplete
    /\ [][WritesOnlyNewPositions]_vars

(* a decode call done by slimAttention with the copy inside the tiles, after a prefill *)
C8_Witness ==
    \E r \in ranks : \E l \in Layers :
        /\ Completed(r, l)
        /\ call[r][l].pastSeqLen > 0
        /\ call[r][l].inner = "slimAttention"
        /\ ~call[r][l].kvCopied
        /\ KVSizeOf(r, l) > 1
        /\ ctx.batchSize > 1
        /\ CacheHolds(r, l, call[r][l].pastSeqLen + call[r][l].inputSeqLen)

(* the other kernels: the head-sharded decode, the copy before slimAttention, flash *)
C8_WitnessShardHead ==
    \E r \in ranks : \E l \in Layers :
        /\ Completed(r, l)
        /\ call[r][l].pastSeqLen > 0
        /\ call[r][l].inner = "crossAttnShardHead"
        /\ KVSizeOf(r, l) > 0

C8_WitnessPreCopy ==
    \E r \in ranks : \E l \in Layers :
        /\ Completed(r, l)
        /\ call[r][l].pastSeqLen > 0
        /\ call[r][l].inner = "slimAttention"
        /\ call[r][l].kvCopied
        /\ KVSizeOf(r, l) > 0

C8_WitnessFlash ==
    \E r \in ranks : \E l \in Layers :
        /\ Completed(r, l)
        /\ call[r][l].kernels = <<"flashAttention">>
        /\ ctx.batchSize > 1
        /\ KVSizeOf(r, l) > 0

(***************************************************************************)
(* SpecTP: all numSplit processes of a tensor-parallel group run the same  *)
(* layer, each with its own splitIdx, through a prefill and decode steps.  *)
(***************************************************************************)
MaxRanks == 3

(* the output biases a model supplies: none, or one of two vectors of hiddenSize floats *)
SuppliedBiases == {NullPtr} \cup {[i \in 1..HiddenSize |-> m * i] : m \in {1, 2}}

InitTP ==
    \E n \in 1..MaxRanks, g \in {1, 2}, bias \in SuppliedBiases, ir \in BOOLEAN :
        Start([BaseCtx EXCEPT !.attHeadNum = MaxRanks + 1, !.kvHeadNum = MaxRanks + 1,
                              !.numSplit = n],
              [BaseTpl EXCEPT !.gamma = g, !.inputAsResid = ir, !.doLnBefore = ir],
              [attnOutBias |-> bias], 0..(n - 1))
        /\ region = NoRegion

SpecTP == InitTP /\ [][Next]_vars

RECURSIVE SumOver(_, _)
SumOver(f, S) ==
    IF S = {} THEN 0
    ELSE LET x == CHOOSE y \in S : TRUE
         IN  f[x] + SumOver(f, S \ {x})

(* every rank of the group has finished the attention (the MLP) of layer l in this step *)
AttnDone(l) ==
    \A r \in ranks : call[r][l].n = step.n /\ call[r][l].out.gemm # "none"

MlpDone(l) ==
    \A r \in ranks : mcall[r][l].n = step.n /\ mcall[r][l].out.gemm # "none"

(* C6: in the attention output projection and in the MLP down projection the residual
   is added by the rank with splitIdx == 0 alone (gamma times in attention, once in the
   MLP); every other rank emits its partial product only, so the sum of the ranks'
   outputs holds the residual exactly once. *)
C6_ResidualOnce ==
    /\ \A r \in ranks : \A l \in Layers :
          /\ call[r][l].out.gemm # "none" =>
                /\ mmResidualCoef(call[r][l].out) = (IF r = 0 THEN tpl.gamma ELSE 0)
                /\ (call[r][l].out.residual # Null) = (r = 0)
          /\ mcall[r][l].out.gemm # "none" =>
                /\ mmResidualCoef(mcall[r][l].out) = (IF r = 0 THEN 1 ELSE 0)
                /\ (mcall[r][l].out.residual # Null) = (r = 0)
    /\ \A l \in Layers :
          /\ AttnDone(l) =>
                /\ SumOver([r \in ranks |-> mmResidualCoef(call[r][l].out)], ranks) = tpl.gamma
                /\ Cardinality({r \in ranks : call[r][l].out.residual # Null}) = 1
          /\ MlpDone(l) =>
                /\ SumOver([r \in ranks |-> mmResidualCoef(mcall[r][l].out)], ranks) = 1
                /\ Cardinality({r \in ranks : mcall[r][l].out.residual # Null}) = 1

(* three ranks, gamma # 1, all through the attention and the MLP of a decode step *)
C6_Witness ==
    /\ Cardinality(ranks) = MaxRanks
    /\ tpl.gamma # 1
    /\ step.n >= 2
    /\ AttnDone(0)
    /\ MlpDone(0)

(* C7: with an output bias supplied, rank 0 stores and adds the supplied bias, every
   other rank stores zeros, and the biases the ranks add in their output projections
   sum to the supplied bias. *)
C7_BiasOnce ==
    wts.attnOutBias # NullPtr =>
        /\ \A r \in ranks : \A l \in Layers :
              /\ att[r][l].st = "ready" =>
                    att[r][l].attnOutputBias = (IF r = 0 THEN wts.attnOutBias ELSE Zeros)
              /\ call[r][l].out.gemm # "none" =>
                    mmBias(call[r][l].out) = (IF r = 0 THEN wts.attnOutBias ELSE Zeros)
        /\ \A l \in Layers :
              AttnDone(l) =>
                 \A i \in 1..HiddenSize :
                    SumOver([r \in ranks |-> mmBias(call[r][l].out)[i]], ranks)
                        = wts.attnOutBias[i]

(* three ranks with a supplied bias have all run their output projection *)
C7_Witness ==
    /\ Cardinality(ranks) = MaxRanks
    /\ wts.attnOutBias # NullPtr
    /\ step.n >= 1
    /\ AttnDone(0)

(***************************************************************************)
(* Exact arithmetic for the softmax statistics: a float is the fraction    *)
(* <<num, den>> in lowest terms, den > 0, and std::exp is the power of two *)
(* (it keeps exp(a + b) = exp(a) * exp(b) and monotonicity, which is all   *)
(* the merge uses).                                                        *)
(***************************************************************************)
RECURSIVE GCD(_, _)
GCD(a, b) ==
    IF b = 0 THEN a ELSE GCD(b, a % b)

Rat(n, d) ==
    LET g == GCD(n, d)
    IN  <<n \div g, d \div g>>

RZero == <<0, 1>>

ROne == <<1, 1>>

RAdd(p, q) == Rat(p[1] * q[2] + q[1] * p[2], p[2] * q[2])

RMul(p, q) == Rat(p[1] * q[1], p[2] * q[2])

RDiv(p, q) == Rat(p[1] * q[2], p[2] * q[1])

RECURSIVE Pow2(_)
Pow2(k) ==
    IF k = 0 THEN 1 ELSE 2 * Pow2(k - 1)

Exp(x) ==
    IF x >= 0 THEN <<Pow2(x), 1>> ELSE <<1, Pow2(-x)>>

RECURSIVE RSum(_, _)
RSum(f, S) ==
    IF S = {} THEN RZero
    ELSE LET x == CHOOSE y \in S : TRUE
         IN  RAdd(f[x], RSum(f, S \ {x}))

MaxOf(S) == CHOOSE x \in S : \A y \in S : y <= x

(***************************************************************************)
(* The shards of crossAttnShardHead: splits, the block size nb and the     *)
(* columns [nOff, nOff + n) of shard s.                                    *)
(***************************************************************************)
shardSplits(numThreads, batchSize, responsibleHeads) ==
    CDiv(numThreads, batchSize * responsibleHeads)

shardRange(N, splits, s) ==
    LET nb == CDiv(N + splits - 1, splits)
        nOff == s * nb
    IN  [nOff |-> nOff, n |-> IF s < splits - 1 THEN nb ELSE N - nOff]

(* the V row of key column j for head hd = b * responsibleHeads + i (one element) *)
valueRow(hd, j) == <<j + 1 + hd, 1>>

(* DecoderUtil::softmaxWithStats over columns nOff .. nOff+n-1 of the scores: the  *)
(* maximum, the sum of exp(x - max), and the scores replaced by the shard's softmax *)
softmaxWithStats(score, nOff, n) ==
    LET cols == nOff..(nOff + n - 1)
        mx == MaxOf({score[j] : j \in cols})
        sum == RSum([j \in cols |-> Exp(score[j] - mx)], cols)
    IN  [max |-> mx, sum |-> sum, soft |-> [j \in cols |-> RDiv(Exp(score[j] - mx), sum)]]

(* xft::small_gemm(A, B, C, 1, headSize, n): softmax row times the V rows of the shard *)
small_gemm(soft, hd) ==
    RSum([j \in DOMAIN soft |-> RMul(soft[j], valueRow(hd, j))], DOMAIN soft)

(***************************************************************************)
(* The reduction shard 0 of a head does once its peers have finished.      *)
(***************************************************************************)
RECURSIVE realMaxLoop(_, _, _, _)
realMaxLoop(splitInfo, idx, last, realMax) ==
    IF idx > last THEN realMax
    ELSE realMaxLoop(splitInfo, idx + 1, last,
                     IF splitInfo[idx].max > realMax THEN splitInfo[idx].max ELSE realMax)

reduceHeadNoRevise(splitInfo, shardedOut, headStartIdx, splits) ==
    LET idxs == headStartIdx..(headStartIdx + splits - 1)
        realMax == realMaxLoop(splitInfo, headStartIdx + 1, headStartIdx + splits - 1,
                               splitInfo[headStartIdx].max)
        revFactor == [idx \in idxs |-> Exp(splitInfo[idx].max - realMax)]
        realSum == RSum([idx \in idxs |-> splitInfo[idx].sum], idxs)
        factor == [idx \in idxs |-> RMul(revFactor[idx], RDiv(splitInfo[idx].sum, realSum))]
    IN  [realMax |-> realMax, realSum |-> realSum, revFactor |-> revFactor, factor |-> factor,
         acc |-> RSum([idx \in idxs |-> RMul(shardedOut[idx], factor[idx])], idxs)]

reduceHead(splitInfo, shardedOut, headStartIdx, splits) ==
    LET idxs == headStartIdx..(headStartIdx + splits - 1)
        realMax == realMaxLoop(splitInfo, headStartIdx + 1, headStartIdx + splits - 1,
                               splitInfo[headStartIdx].max)
        revFactor == [idx \in idxs |-> Exp(splitInfo[idx].max - realMax)]
        realSum == RSum([idx \in idxs |-> RMul(splitInfo[idx].sum, revFactor[idx])], idxs)
        factor == [idx \in idxs |-> RMul(revFactor[idx], RDiv(splitInfo[idx].sum, realSum))]
    IN  [realMax |-> realMax, realSum |-> realSum, revFactor |-> revFactor, factor |-> factor,
         acc |-> RSum([idx \in idxs |-> RMul(shardedOut[idx], factor[idx])], idxs)]

(***************************************************************************)
(* The parallel region of crossAttnShardHead, one iteration (b, i, s) of   *)
(* the collapsed loop at a time.  Iteration t = (b*responsibleHeads+i)*    *)
(* splits + s is threadIdx in the code.  The team has `team` workers; an   *)
(* OpenMP loop without a schedule clause is divided statically (worker w   *)
(* runs one contiguous block, in increasing order) or handed out from a    *)
(* shared counter (dynamic), as the runtime decides.                       *)
(*   next[w], last[w]  static: the iterations worker w still has to run    *)
(*   counter           dynamic: the first iteration not handed out yet     *)
(*   waiting[w]        the shard-0 iteration whose reduction w is spinning *)
(*                     for, or -1                                          *)
(***************************************************************************)
Workers == 0..(region.team - 1)

totalTasks == ctx.batchSize * region.heads * region.splits

Tasks == 0..(totalTasks - 1)

HeadIds == 0..(ctx.batchSize * region.heads - 1)

(* the block of iterations a static schedule gives worker w of a team *)
staticChunk(total, team, w) ==
    LET q == total \div team
        rem == total % team
        lo == w * q + Min(w, rem)
    IN  <<lo, lo + q + (IF w < rem THEN 1 ELSE 0)>>

NewRegion(heads, splits, N, team, sched, score) ==
    [active |-> TRUE, heads |-> heads, splits |-> splits, N |-> N, team |-> team,
     sched |-> sched, score |-> score,
     next |-> [w \in 0..(team - 1) |->
                  staticChunk(ctx.batchSize * heads * splits, team, w)[1]],
     last |-> [w \in 0..(team - 1) |->
                  staticChunk(ctx.batchSize * heads * splits, team, w)[2]],
     counter |-> 0,
     waiting |-> [w \in 0..(team - 1) |-> -1],
     splitInfo |-> [t \in 0..(ctx.batchSize * heads * splits - 1) |->
                       [max |-> 0, sum |-> RZero, flag |-> RZero]],
     shardedOut |-> [t \in 0..(ctx.batchSize * heads * splits - 1) |-> RZero],
     stats |-> [hd \in 0..(ctx.batchSize * heads - 1) |-> [realMax |-> 0, realSum |-> RZero]],
     result |-> [hd \in 0..(ctx.batchSize * heads - 1) |-> Junk]]

(* the iteration worker w runs next, or -1 when the loop has none left for it *)
nextIteration(w) ==
    IF region.sched = "static"
    THEN IF region.next[w] < region.last[w] THEN region.next[w] ELSE -1
    ELSE IF region.counter < totalTasks THEN region.counter ELSE -1

CanRunShard(w) ==
    region.active /\ region.waiting[w] = -1 /\ nextIteration(w) # -1

(* the body of the loop up to the finished flag: Q*K, softmaxWithStats, softmax*V *)
RunShard(w) ==
    /\ CanRunShard(w)
    /\ LET t == nextIteration(w)
           s == t % region.splits
           hd == t \div region.splits
           rg == shardRange(region.N, region.splits, s)
           info == softmaxWithStats(region.score, rg.nOff, rg.n)
       IN  region' = [region EXCEPT
                         !.splitInfo[t] = [max |-> info.max, sum |-> info.sum, flag |-> ROne],
                         !.shardedOut[t] = small_gemm(info.soft, hd),
                         !.next[w] = IF region.sched = "static" THEN @ + 1 ELSE @,
                         !.counter = IF region.sched = "static" THEN @ ELSE @ + 1,
                         !.waiting[w] = IF s = 0 THEN t ELSE -1]
    /\ UNCHANGED <<normBuf, ctx, tpl, wts, ranks, proc, att, mlp, reserved1, presentKey,
                   presentValue, step, pos, call, mcall>>

(* the spin-wait of shard 0 ends once every peer of the head has set its flag *)
PeersFinished(t) ==
    \A idx \in (t + 1)..(t + region.splits - 1) : region.splitInfo[idx].flag # RZero

CanReduce(w) ==
    region.active /\ region.waiting[w] # -1 /\ PeersFinished(region.waiting[w])

Reduce(w) ==
    /\ CanReduce(w)
    /\ LET t == region.waiting[w]
           hd == t \div region.splits
           red == reduceHead(region.splitInfo, region.shardedOut, t, region.splits)
       IN  region' = [region EXCEPT
                         !.splitInfo = [idx \in Tasks |->
                                           IF idx \in t..(t + region.splits - 1)
                                           THEN [@[idx] EXCEPT !.flag = red.revFactor[idx]]
                                           ELSE @[idx]],
                         !.stats[hd] = [realMax |-> red.realMax, realSum |-> red.realSum],
                         !.result[hd] = red.acc,
                         !.waiting[w] = -1]
    /\ UNCHANGED <<normBuf, ctx, tpl, wts, ranks, proc, att, mlp, reserved1, presentKey,
                   presentValue, step, pos, call, mcall>>

(***************************************************************************)
(* SpecShard: one call of crossAttnShardHead on a rank with one head per   *)
(* batch item, over N cached key columns whose shards are non-empty and    *)
(* inside [0, N), with every team size from one worker up to one worker    *)
(* per iteration.                                                          *)
(***************************************************************************)
MaxShards == 3

MaxCols == 4

ScoreSet == {0, 1, 3}

ProperShards(N, splits) ==
    \A s \in 0..(splits - 1) :
        /\ shardRange(N, splits, s).n >= 1
        /\ shardRange(N, splits, s).nOff + shardRange(N, splits, s).n <= N

(* <<batchSize, splits>>: one batch item with 2..MaxShards shards, two items with 2 shards *)
ShardShapes == {<<1, sp>> : sp \in 2..MaxShards} \cup {<<2, 2>>}

InitShard ==
    \E shape \in ShardShapes, N \in 2..MaxCols :
      LET b == shape[1]
          sp == shape[2]
      IN
        /\ ProperShards(N, sp)
        /\ \E team \in 1..(b * sp), sched \in {"static", "dynamic"},
              score \in [0..(N - 1) -> ScoreSet] :
                /\ Start([BaseCtx EXCEPT !.attHeadNum = 1, !.kvHeadNum = 1, !.batchSize = b,
                                         !.numThreads = b * sp],
                         BaseTpl, NoWeights, {0})
                /\ region = NewRegion(1, shardSplits(b * sp, b, 1), N, team, sched, score)

NextShard ==
    \/ \E w \in Workers : RunShard(w)
    \/ \E w \in Workers : Reduce(w)

SpecShard == InitShard /\ [][NextShard]_vars

RegionDone ==
    /\ \A w \in Workers : region.waiting[w] = -1 /\ nextIteration(w) = -1
    /\ \A hd \in HeadIds : region.result[hd] # Junk

(* C9 as stated: every call of crossAttnShardHead terminates, whatever the number of
   workers the team has: while the region is not finished, some worker can go on (run
   its next shard, or leave its spin-wait and reduce). *)
C9_RegionTerminates ==
    region.active => (RegionDone \/ \E w \in Workers : CanRunShard(w) \/ CanReduce(w))

(* the same with one worker per iteration, where no worker has a shard queued behind
   a spin-wait: the region always goes on to its end *)
C9_FullTeamTerminates ==
    (region.active /\ region.team = totalTasks) =>
        (RegionDone \/ \E w \in Workers : CanRunShard(w) \/ CanReduce(w))

C9_FullTeamWitness ==
    region.active /\ region.team = totalTasks /\ totalTasks > 2 /\ RegionDone

(* the single-shard softmax over all N columns, then the projection on V *)
singleShard(hd) ==
    small_gemm(softmaxWithStats(region.score, 0, region.N).soft, hd)

Merged(hd) == region.result[hd] # Junk

(* C10: for shards that partition the key columns, the reducer takes realMax as the
   largest shardMax, revFactor_s = exp(shardMax_s - realMax), realSum = sum of
   shardSum_s * revFactor_s, and weights revFactor_s * shardSum_s / realSum that sum
   to 1; its output equals the softmax over all columns projected on V. *)
C10_MergeIsSoftmax ==
    region.active =>
        \A hd \in HeadIds :
            Merged(hd) =>
                LET idxs == (hd * region.splits)..(hd * region.splits + region.splits - 1)
                    info == region.splitInfo
                    realMax == region.stats[hd].realMax
                    realSum == region.stats[hd].realSum
                IN  /\ ProperShards(region.N, region.splits)
                    /\ realMax = MaxOf({info[idx].max : idx \in idxs})
                    /\ realMax = MaxOf({region.score[j] : j \in 0..(region.N - 1)})
                    /\ \A idx \in idxs : info[idx].flag = Exp(info[idx].max - realMax)
                    /\ realSum = RSum([idx \in idxs |-> RMul(info[idx].sum, info[idx].flag)], idxs)
                    /\ RSum([idx \in idxs |->
                                RDiv(RMul(info[idx].flag, info[idx].sum), realSum)], idxs) = ROne
                    /\ region.result[hd] = singleShard(hd)

(* a head of three shards whose maxima differ has been merged *)
C10_Witness ==
    /\ region.active
    /\ region.splits = MaxShards
    /\ \E hd \in HeadIds :
          /\ Merged(hd)
          /\ \E a, b \in (hd * region.splits)..(hd * region.splits + region.splits - 1) :
                region.splitInfo[a].max < region.splitInfo[b].max

(***************************************************************************)
(* SpecMLP: one rank of a group with the intermediate dimension split over *)
(* the ranks, on both MLP paths, with and without the norm, in builds with *)
(* and without assertions.                                                 *)
(***************************************************************************)
MaxInter == 3

InitMLP ==
    \E im \in 1..MaxInter, sp \in SplitChoices, cat \in BOOLEAN, ln \in BOOLEAN,
       as \in BOOLEAN, ly \in {1, 2} :
        Start([BaseCtx EXCEPT !.attHeadNum = 4, !.kvHeadNum = 4, !.numSplit = sp[1],
                              !.intermediateSize = im, !.layers = ly],
              [BaseTpl EXCEPT !.catMLP = cat, !.doLnBefore = ln, !.asserts = as],
              NoWeights, {sp[2]})
        /\ region = NoRegion

SpecMLP == InitMLP /\ [][Next]_vars

MlpCompleted(r, l) == mcall[r][l].n > 0 /\ mcall[r][l].out.gemm # "none"

(* the tensor the projections of the call recorded in mcall[r][l] have to read *)
ProjInputOf(r, l) ==
    IF tpl.doLnBefore THEN rmsNorm(InputOf(mcall[r][l].n, l)) ELSE InputOf(mcall[r][l].n, l)

(* what the two-GEMM path hands to downProj for that call, with the gate and up
   weights of the rank *)
TwoGemmAct(r, l) ==
    LET m == mlpWeights(ctx.intermediateSize, ctx.numSplit, r, FALSE)
    IN  upProj(ProjInputOf(r, l), m, gateProj(ProjInputOf(r, l), m))

(* C11: every LlamaMLP::forward call that returns hands downProj the tensor
   SiLU(X*Wgate) * (X*Wup) of the two-GEMM path, also when it went through the
   concatenated GEMM and siluSum, and the down projection and its residual rule are
   the same on both paths. *)
C11_PathsAgree ==
    \A r \in ranks : \A l \in Layers :
        MlpCompleted(r, l) =>
            /\ mcall[r][l].act = TwoGemmAct(r, l)
            /\ mcall[r][l].out = downProj(r = 0)

(* a call on the concatenated path with two columns or more has returned *)
C11_Witness ==
    \E r \in ranks : \E l \in Layers :
        /\ MlpCompleted(r, l)
        /\ tpl.catMLP
        /\ mcall[r][l].path = "catGateUpProj"
        /\ Len(mcall[r][l].act) >= 2

NormOnlyWhenAsked ==
    \A r \in ranks : \A l \in Layers :
        mcall[r][l].n > 0 =>
            /\ mcall[r][l].normWritten = tpl.doLnBefore
            /\ mcall[r][l].projIn = (IF tpl.doLnBefore THEN "normBuf" ELSE "input")
            /\ mcall[r][l].act =
                   (IF tpl.catMLP
                    THEN catGateUpProj(ProjInputOf(r, l), mlp[r][l])
                    ELSE upProj(ProjInputOf(r, l), mlp[r][l], gateProj(ProjInputOf(r, l), mlp[r][l])))
            /\ (mcall[r][l].n = step.n /\ pos[r] = 2 * l + 2 /\ tpl.doLnBefore)
                  => normBuf[r] = rmsNorm(InputOf(step.n, l))
            /\ mcall[r][l].out.residual # "normBuf"
            /\ (MlpCompleted(r, l) /\ r = 0) => mcall[r][l].out.residual = "input"

NormBufKept ==
    ~tpl.doLnBefore => normBuf' = normBuf

(* C12: with doLnBefore the projections read the RMSNorm of this call's input, written
   to normBuf in this call; without it they read the raw input and normBuf is not
   written; the residual of the down projection is the raw input on both settings
   and both paths. *)
C12_NormBeforeProjection ==
    /\ []NormOnlyWhenAsked
    /\ [][NormBufKept]_vars

(* a second step's call with the norm, on the concatenated path, by the master rank *)
C12_Witness ==
    \E l \in Layers :
        /\ 0 \in ranks
        /\ MlpCompleted(0, l)
        /\ mcall[0][l].n >= 2
        /\ tpl.doLnBefore
        /\ tpl.catMLP
        /\ Len(mcall[0][l].act) >= 1

C12_WitnessNoNorm ==
    \E l \in Layers :
        /\ 0 \in ranks
        /\ MlpCompleted(0, l)
        /\ ~tpl.doLnBefore
        /\ normBuf[0] = Junk

(***************************************************************************)
(* SpecPos: one rank through a prefill and decode steps, with and without  *)
(* position ids from the caller and with maxPosEmbed zero and positive.    *)
(***************************************************************************)
InitPos ==
    \E mpe \in {0, 8}, cp \in BOOLEAN, bf \in BOOLEAN, b \in {1, 2}, ly \in {1, 2} :
        Start([BaseCtx EXCEPT !.maxPosEmbed = mpe, !.batchSize = b, !.layers = ly],
              [BaseTpl EXCEPT !.customPos = cp, !.bf16 = bf], NoWeights, {0})
        /\ region = NoRegion

SpecPos == InitPos /\ [][Next]_vars

(* C13: each Attention::forward call applies the position post-op at most once: with
   the caller's positionIds when they are given; else, when maxPosEmbed > 0, with
   pastSeqLen, pastSeqLen+1, ..., pastSeqLen+S-1; else not at all. *)
C13_PostOpOnce ==
    \A r \in ranks : \A l \in Layers :
        Called(r, l) =>
            LET c == call[r][l]
                ids == callerPositionIds(tpl.customPos, c.pastSeqLen, c.inputSeqLen)
            IN  /\ Len(c.postOps) <= 1
                /\ ids # NullPtr => c.postOps = <<ids>>
                /\ (ids = NullPtr /\ ctx.maxPosEmbed > 0) =>
                       /\ Len(c.postOps) = 1
                       /\ Len(c.postOps[1]) = c.inputSeqLen
                       /\ \A i \in 1..c.inputSeqLen : c.postOps[1][i] = c.pastSeqLen + i - 1
                /\ (ids = NullPtr /\ ctx.maxPosEmbed = 0) => c.postOps = <<>>

(* a decode call of several tokens that used the default ids *)
C13_Witness ==
    \E r \in ranks : \E l \in Layers :
        /\ Called(r, l)
        /\ ~tpl.customPos
        /\ ctx.maxPosEmbed > 0
        /\ call[r][l].pastSeqLen > 0
        /\ call[r][l].inputSeqLen > 1
        /\ Len(call[r][l].postOps) = 1

C13_WitnessCaller ==
    \E r \in ranks : \E l \in Layers :
        Called(r, l) /\ tpl.customPos /\ ctx.maxPosEmbed > 0 /\ Len(call[r][l].postOps) = 1

C13_WitnessNone ==
    \E r \in ranks : \E l \in Layers :
        Called(r, l) /\ ~tpl.customPos /\ ctx.maxPosEmbed = 0 /\ call[r][l].out.gemm # "none"

(***************************************************************************)
(* SpecColumns: the key columns crossAttnShardHead gives each shard of a   *)
(* head, for every number N = pastSeqLen + 1 of key columns and every      *)
(* number of shards, computed shard by shard as the loop body does.        *)
(***************************************************************************)
MaxKeyLen == 8

NoRange == [nOff |-> -1, n |-> 0]

InitColumns ==
    \E N \in 1..MaxKeyLen, sp \in 2..(MaxShards + 1) :
        /\ Start([BaseCtx EXCEPT !.attHeadNum = 1, !.kvHeadNum = 1, !.numThreads = sp],
                 BaseTpl, NoWeights, {0})
        /\ region = [active |-> FALSE, N |-> N, splits |-> shardSplits(sp, 1, 1),
                     range |-> [s \in 0..(sp - 1) |-> NoRange]]

(* iteration s of a head computes nOff and n *)
ShardColumns(s) ==
    /\ region.range[s] = NoRange
    /\ region' = [region EXCEPT !.range[s] = shardRange(region.N, region.splits, s)]
    /\ UNCHANGED <<normBuf, ctx, tpl, wts, ranks, proc, att, mlp, reserved1, presentKey,
                   presentValue, step, pos, call, mcall>>

NextColumns ==
    \E s \in 0..(region.splits - 1) : ShardColumns(s)

SpecColumns == InitColumns /\ [][NextColumns]_vars

ColumnsOf(s) ==
    region.range[s].nOff..(region.range[s].nOff + region.range[s].n - 1)

(* C14 as stated: with nb = ceil(N/splits), shard s handles exactly the columns
   [s*nb, min((s+1)*nb, N)): inside [0, N), of non-negative length, pairwise disjoint,
   and together all of [0, N), also when N < splits. *)
C14_ShardsPartition ==
    LET nb == (region.N + region.splits - 1) \div region.splits
        done == {s \in 0..(region.splits - 1) : region.range[s] # NoRange}
    IN  /\ \A s \in done :
              /\ region.range[s].n >= 0
              /\ region.range[s].nOff >= 0
              /\ region.range[s].nOff + region.range[s].n <= region.N
              /\ ColumnsOf(s) = {j \in 0..(region.N - 1) : s * nb <= j /\ j < (s + 1) * nb}
        /\ \A s, t \in done : s # t => ColumnsOf(s) \cap ColumnsOf(t) = {}
        /\ done = 0..(region.splits - 1) =>
              UNION {ColumnsOf(s) : s \in done} = 0..(region.N - 1)

(* the same for the lengths where the first splits-1 blocks fit: (splits-1)*nb <= N *)
C14_PartitionWhenBlocksFit ==
    LET nb == (region.N + region.splits - 1) \div region.splits
    IN  (region.splits - 1) * nb <= region.N => C14_ShardsPartition

C14_BlocksFitWitness ==
    /\ region.N = 7
    /\ region.splits = 3
    /\ \A s \in 0..2 : region.range[s] # NoRange

(***************************************************************************)
(* The choice of the inner kernel in fusedAttention (checked under         *)
(* SpecSelect): layers of 1..MaxHeads heads, on one rank or on the last of *)
(* two or three ranks, with a thread supply of 1, 4 or 64.                 *)
(***************************************************************************)
ThreadChoices == {1, 4, 64}

InitSelect ==
    \E h \in 1..MaxHeads, sp \in {<<1, 0>>, <<2, 1>>, <<3, 2>>}, b \in {1, 2}, th \in ThreadChoices :
        Start([BaseCtx EXCEPT !.attHeadNum = h, !.kvHeadNum = h, !.numSplit = sp[1],
                              !.batchSize = b, !.numThreads = th],
              BaseTpl, NoWeights, {sp[2]})
        /\ region = NoRegion

SpecSelect == InitSelect /\ [][Next]_vars

FusedCall(r, l) == Called(r, l) /\ call[r][l].kernels = <<"fusedAttention">>

ShardHeadCondition(r, l) ==
    /\ call[r][l].inputSeqLen = 1
    /\ ctx.numThreads >= 2 * ctx.batchSize * QSizeOf(r, l)

(* the call came back from crossAttnShardHead with splits >= 2 shards per head that
   fit the thread supply *)
ShardHeadRuns(r, l) ==
    LET tasks == ctx.batchSize * QSizeOf(r, l)
    IN  /\ call[r][l].out # NoGemm
        /\ IF tasks = 0 THEN FALSE
           ELSE LET splits == shardSplits(ctx.numThreads, ctx.batchSize, QSizeOf(r, l))
                IN  splits >= 2 /\ tasks * splits <= ctx.numThreads

(* C15 as stated: fusedAttention takes the head-sharded path exactly when
   inputSeqLen == 1 and numThreads >= 2*batchSize*(endQHead-startQHead), and on that
   path splits = numThreads / (batchSize*respQHeads) is always >= 2 with
   batchSize*respQHeads*splits <= numThreads, so the splits > 1 check never fails. *)
C15_ShardHeadSelection ==
    \A r \in ranks : \A l \in Layers :
        FusedCall(r, l) =>
            /\ (call[r][l].inner = "crossAttnShardHead") = ShardHeadCondition(r, l)
            /\ ShardHeadCondition(r, l) => ShardHeadRuns(r, l)

(* the same for the ranks that own at least one Q head *)
C15_ShardHeadSelectionWithHeads ==
    \A r \in ranks : \A l \in Layers :
        (FusedCall(r, l) /\ QSizeOf(r, l) >= 1) =>
            /\ (call[r][l].inner = "crossAttnShardHead") = ShardHeadCondition(r, l)
            /\ ShardHeadCondition(r, l) => ShardHeadRuns(r, l)

(* batch 1, 8 heads, 64 threads, one token: the head-sharded kernel with splits = 8 *)
C15_WitnessS4 ==
    \E r \in ranks : \E l \in Layers :
        /\ FusedCall(r, l)
        /\ ctx.batchSize = 1 /\ QSizeOf(r, l) = 8 /\ ctx.numThreads = 64
        /\ call[r][l].inner = "crossAttnShardHead"
        /\ call[r][l].out # NoGemm
        /\ shardSplits(ctx.numThreads, ctx.batchSize, QSizeOf(r, l)) = 8

(* a rank without Q heads enters the head-sharded path and does not come back *)
C15_WitnessNoHeads ==
    \E r \in ranks : \E l \in Layers :
        /\ FusedCall(r, l)
        /\ QSizeOf(r, l) = 0
        /\ call[r][l].inner = "crossAttnShardHead"
        /\ proc[r] = "exited"

(***************************************************************************)
(* The hand-over between the shards of a head in crossAttnShardHead, store *)
(* by store (checked under SpecPublish).  Every iteration has a worker of  *)
(* its own.  An iteration stores its max, its sum and its partial output   *)
(* and then sets its finished flag; the iteration with s == 0 goes on to   *)
(* wait for the flags of its peers, revise and accumulate.  splitInfo is   *)
(* an array of plain floats written and read by different threads without  *)
(* atomics, flushes or barriers: a data race.  A build may keep the stores *)
(* of an iteration in program order, or let them reach memory in another   *)
(* order; region.build says which.                                         *)
(*   pending[t]   the stores of iteration t that have not reached memory   *)
(*   flag[t]      "zero", "one" (finished) or "rev" (holds a revFactor)    *)
(*   phase[t]     "shard", "wait", "revise", "acc", "store" or "done"      *)
(*   idx[t]       the loop variable idx of the reduction run by t          *)
(*   seen[t]      the peers whose flag t has read as non-zero              *)
(*   early        the reads <<by, of, what>> of a value not yet stored     *)
(*   unseen       the reads <<by, of, what>> of a peer whose flag the      *)
(*                reader has not read as non-zero                          *)
(*   flagUse      the pairs <<by, of>>: iteration by read or wrote the     *)
(*                flag of iteration of                                     *)
(*   resultBy[hd] the shard indices s that stored the result row of hd     *)
(*   resultCount[hd]  how many times the result row of hd was stored       *)
(***************************************************************************)
ShardStores == <<"max", "sum", "out", "flag">>

StoreSet == {ShardStores[k] : k \in 1..Len(ShardStores)}

Builds == {"programOrder", "reordered"}

isReducerAnyShard(s) ==
    TRUE

isReducer(s) ==
    s = 0

headStartIdx(t) == (t \div region.splits) * region.splits

firstPending(t) ==
    ShardStores[CHOOSE k \in 1..Len(ShardStores) :
                    /\ ShardStores[k] \in region.pending[t]
                    /\ \A j \in 1..(k - 1) : ShardStores[j] \notin region.pending[t]]

NewPublish(heads, splits, build) ==
    [active |-> TRUE, heads |-> heads, splits |-> splits, build |-> build,
     pending |-> [t \in 0..(heads * splits - 1) |-> StoreSet],
     flag |-> [t \in 0..(heads * splits - 1) |-> "zero"],
     phase |-> [t \in 0..(heads * splits - 1) |-> "shard"],
     idx |-> [t \in 0..(heads * splits - 1) |-> 0],
     seen |-> [t \in 0..(heads * splits - 1) |-> {}],
     early |-> {}, unseen |-> {}, flagUse |-> {},
     resultBy |-> [hd \in 0..(heads - 1) |-> {}],
     resultCount |-> [hd \in 0..(heads - 1) |-> 0]]

PublishTasks == 0..(region.heads * region.splits - 1)

(* the reads of iteration t from the slot of iteration of that find nothing stored *)
earlyReads(t, of, whats) ==
    {<<t, of, w>> : w \in {x \in whats : x \in region.pending[of]}}

(* the reads of iteration t from a peer whose flag it has not seen set *)
unseenReads(t, of, whats) ==
    IF of = t \/ of \in region.seen[t] THEN {} ELSE {<<t, of, w>> : w \in whats}

(* one store of iteration t reaches memory: info.first, info.second, the row of
   shardedOut, or the finished flag *)
Store(t, what) ==
    /\ region.phase[t] = "shard"
    /\ what \in region.pending[t]
    /\ region.build = "programOrder" => what = firstPending(t)
    /\ LET left == region.pending[t] \ {what}
       IN  region' = [region EXCEPT
                         !.pending[t] = left,
                         !.flag[t] = IF what = "flag" THEN "one" ELSE @,
                         !.flagUse = IF what = "flag" THEN @ \cup {<<t, t>>} ELSE @,
                         !.phase[t] = IF left # {} THEN "shard"
                                      ELSE IF isReducer(t % region.splits) THEN "wait"
                                      ELSE "done",
                         !.idx[t] = IF left = {} THEN headStartIdx(t) + 1 ELSE @]
    /\ UNCHANGED <<normBuf, ctx, tpl, wts, ranks, proc, att, mlp, reserved1, presentKey,
                   presentValue, step, pos, call, mcall>>

(* the while loop on the flag of idx ends, and the max of idx is compared with realMax *)
Spin(t) ==
    /\ region.phase[t] = "wait"
    /\ region.flag[region.idx[t]] # "zero"
    /\ LET i == region.idx[t]
           last == i + 1 = headStartIdx(t) + region.splits
       IN  region' = [region EXCEPT
                         !.seen[t] = @ \cup {i},
                         !.flagUse = @ \cup {<<t, i>>},
                         !.early = @ \cup earlyReads(t, i, {"max"}),
                         !.idx[t] = IF last THEN headStartIdx(t) ELSE i + 1,
                         !.phase[t] = IF last THEN "revise" ELSE "wait"]
    /\ UNCHANGED <<normBuf, ctx, tpl, wts, ranks, proc, att, mlp, reserved1, presentKey,
                   presentValue, step, pos, call, mcall>>

(* one round of the realSum loop: reads the max and the sum of idx, stores revFactor
   in its flag *)
Revise(t) ==
    /\ region.phase[t] = "revise"
    /\ LET i == region.idx[t]
           last == i + 1 = headStartIdx(t) + region.splits
       IN  region' = [region EXCEPT
                         !.flag[i] = "rev",
                         !.flagUse = @ \cup {<<t, i>>},
                         !.early = @ \cup earlyReads(t, i, {"max", "sum"}),
                         !.unseen = @ \cup unseenReads(t, i, {"max", "sum"}),
                         !.idx[t] = IF last THEN headStartIdx(t) ELSE i + 1,
                         !.phase[t] = IF last THEN "acc" ELSE "revise"]
    /\ UNCHANGED <<normBuf, ctx, tpl, wts, ranks, proc, att, mlp, reserved1, presentKey,
                   presentValue, step, pos, call, mcall>>

(* one round of the accumulation: reads the max, the sum, the revFactor and the row
   of shardedOut of idx *)
Accumulate(t) ==
    /\ region.phase[t] = "acc"
    /\ LET i == region.idx[t]
           last == i + 1 = headStartIdx(t) + region.splits
       IN  region' = [region EXCEPT
                         !.flagUse = @ \cup {<<t, i>>},
                         !.early = @ \cup earlyReads(t, i, {"max", "sum", "out"}),
                         !.unseen = @ \cup unseenReads(t, i, {"max", "sum", "out"}),
                         !.idx[t] = IF last THEN headStartIdx(t) ELSE i + 1,
                         !.phase[t] = IF last THEN "store" ELSE "acc"]
    /\ UNCHANGED <<normBuf, ctx, tpl, wts, ranks, proc, att, mlp, reserved1, presentKey,
                   presentValue, step, pos, call, mcall>>

(* acc -> result *)
StoreResult(t) ==
    /\ region.phase[t] = "store"
    /\ region' = [region EXCEPT
                     !.resultBy[t \div region.splits] = @ \cup {t % region.splits},
                     !.resultCount[t \div region.splits] = @ + 1,
                     !.phase[t] = "done"]
    /\ UNCHANGED <<normBuf, ctx, tpl, wts, ranks, proc, att, mlp, reserved1, presentKey,
                   presentValue, step, pos, call, mcall>>

InitPublish ==
    \E shape \in ShardShapes, build \in Builds :
        /\ Start([BaseCtx EXCEPT !.batchSize = shape[1], !.attHeadNum = 1, !.kvHeadNum = 1,
                                 !.numThreads = shape[1] * shape[2]],
                 BaseTpl, NoWeights, {0})
        /\ region = NewPublish(shape[1], shardSplits(shape[1] * shape[2], shape[1], 1), build)

NextPublish ==
    \/ \E t \in PublishTasks, what \in StoreSet : Store(t, what)
    \/ \E t \in PublishTasks : Spin(t)
    \/ \E t \in PublishTasks : Revise(t)
    \/ \E t \in PublishTasks : Accumulate(t)
    \/ \E t \in PublishTasks : StoreResult(t)

SpecPublish == InitPublish /\ [][NextPublish]_vars

PublishDone == \A t \in PublishTasks : region.phase[t] = "done"

(* C16 as stated: under every interleaving of the shard workers each producer writes
   its max, its sum and its partial output before it sets its flag to 1, the shard-0
   reducer reads a peer's max, sum or partial output only after it has observed that
   peer's flag as non-zero, and so the reducer never uses a statistic or partial
   output that its producer has not finished writing. *)
C16_PublishedBeforeUse ==
    /\ \A t \in PublishTasks : "flag" \notin region.pending[t] => region.pending[t] = {}
    /\ region.unseen = {}
    /\ region.early = {}

(* the same in a build that keeps the stores of an iteration in program order *)
C16_PublishedBeforeUseInProgramOrder ==
    region.build = "programOrder" =>
        /\ \A t \in PublishTasks : "flag" \notin region.pending[t] => region.pending[t] = {}
        /\ region.unseen = {}
        /\ region.early = {}

(* a reducer that accumulated the partial output of a peer before it was stored *)
C16_WitnessEarlyRead ==
    \E t \in PublishTasks : \E of \in PublishTasks :
        /\ region.build = "reordered"
        /\ isReducer(t % region.splits) /\ of # t
        /\ <<t, of, "out">> \in region.early

(* a region that ran to its end in a build that keeps program order *)
C16_WitnessProgramOrder ==
    /\ region.build = "programOrder"
    /\ PublishDone
    /\ \A hd \in 0..(region.heads - 1) : region.resultCount[hd] = 1

HeadTasks(hd) == (hd * region.splits)..(hd * region.splits + region.splits - 1)

(* C17: only the shard with index 0 of a (batch, head) writes the result row of the
   head, exactly once and only after all peers of the head have published; no shard
   with index > 0 reads or writes the result tile or the flag of another shard; a flag
   is overwritten by revFactor only after the reducer has finished waiting on every
   flag of the head. *)
C17_OnlyShardZeroReduces ==
    /\ \A hd \in 0..(region.heads - 1) :
           /\ region.resultBy[hd] \subseteq {0}
           /\ region.resultCount[hd] <= 1
           /\ PublishDone => region.resultCount[hd] = 1
           /\ region.resultCount[hd] >= 1 =>
                  \A t \in HeadTasks(hd) : "flag" \notin region.pending[t]
    /\ \A use \in region.flagUse :
           use[1] # use[2] =>
               /\ use[1] % region.splits = 0
               /\ use[2] \in HeadTasks(use[1] \div region.splits)
    /\ \A t \in PublishTasks :
           region.flag[t] = "rev" =>
               /\ region.phase[headStartIdx(t)] \in {"revise", "acc", "store", "done"}
               /\ region.seen[headStartIdx(t)] = HeadTasks(t \div region.splits) \ {headStartIdx(t)}

(* every head reduced, whatever the order in which the stores reached memory *)
C17_Witness ==
    /\ region.build = "reordered"
    /\ PublishDone
    /\ \A hd \in 0..(region.heads - 1) : region.resultCount[hd] = 1 /\ region.resultBy[hd] = {0}
    /\ \A t \in PublishTasks : region.flag[t] = "rev"

(***************************************************************************)
(* The prefill block size (checked under SpecBlock): fusedAttention of a   *)
(* first layer with pastSeqLen == 0 asks getMBlockSize for the block size  *)
(* of a prompt of 1..MaxPrefill tokens, with heads of 64, 128 or 256       *)
(* elements of 2 or 4 bytes.  Over these inputs 2*qkvSize + scoreSize is   *)
(* below 2^24, so the float quotient in getMBlockSize is exact enough for  *)
(* std::ceil to give the integer ceiling.                                  *)
(***************************************************************************)
MaxPrefill == 2048

HeadSizes == {64, 128, 256}

NoBlock == -1

InitBlock ==
    \E S \in 1..MaxPrefill, hs \in HeadSizes, bf \in BOOLEAN :
        /\ Start([BaseCtx EXCEPT !.attHeadSize = hs], [BaseTpl EXCEPT !.bf16 = bf], NoWeights, {0})
        /\ region = [active |-> FALSE, inputSeqLen |-> S, mBlockSize |-> NoBlock]

(* mBlockSize = getMBlockSize(ctx->inputSeqLen, ctx->attHeadSize) *)
PrefillBlockSize ==
    /\ region.mBlockSize = NoBlock
    /\ region' = [region EXCEPT
                     !.mBlockSize = getMBlockSize(region.inputSeqLen, ctx.attHeadSize, sizeofImT)]
    /\ UNCHANGED <<normBuf, ctx, tpl, wts, ranks, proc, att, mlp, reserved1, presentKey,
                   presentValue, step, pos, call, mcall>>

NextBlock == PrefillBlockSize

SpecBlock == InitBlock /\ [][NextBlock]_vars

(* ceil(S/splits) of the statement: splits is 1 when capacity <= 2*S*headSize, else
   ceil((2*S*headSize + S*S) / (capacity - 2*S*headSize)), capacity = 2 MiB / sizeof(ImT) *)
StatedBlock(S, headSize, size) ==
    LET capacity == 2097152 \div size
        room == capacity - 2 * S * headSize
        splits == IF room <= 0 THEN 1
                  ELSE (2 * S * headSize + S * S + room - 1) \div room
    IN  (S + splits - 1) \div splits

(* C20 as stated: for every S >= 1 and headSize >= 1 getMBlockSize(S, headSize) is
   ceil(S/splits) clamped to [min(6,S), S]; in particular it is never below min(6, S)
   and never above S. *)
C20_BlockSizeClamped ==
    region.mBlockSize # NoBlock =>
        LET S == region.inputSeqLen
            stated == StatedBlock(S, ctx.attHeadSize, sizeofImT)
        IN  /\ region.mBlockSize = Min(Max(stated, Min(6, S)), S)
            /\ region.mBlockSize >= Min(6, S)
            /\ region.mBlockSize <= S

(* what the code returns: ceil(S/splits), between 1 and S, with no lower clamp *)
C20_BlockSizeUnclamped ==
    region.mBlockSize # NoBlock =>
        LET S == region.inputSeqLen
        IN  /\ region.mBlockSize = StatedBlock(S, ctx.attHeadSize, sizeofImT)
            /\ region.mBlockSize >= 1
            /\ region.mBlockSize <= S

(* 2047 tokens, heads of 128 floats: a block of one row *)
C20_WitnessBelowSix ==
    /\ region.inputSeqLen = 2047 /\ ctx.attHeadSize = 128 /\ ~tpl.bf16
    /\ region.mBlockSize = 1

(***************************************************************************)
(* fusedAttention iteration by iteration (checked under SpecTiles): the    *)
(* copy of the current K and V before the parallel region, one step per    *)
(* iteration (b, h, seq) of copyKVCache, and then the tiles (b, i, mb) of  *)
(* slimAttention or the shards (b, i, s) of crossAttnShardHead, one step   *)
(* per cache access, every iteration on a worker of its own.  The rows of  *)
(* the positions below pastSeqLen were written by the earlier calls.       *)
(*   stage      "idle", "copy", "tiles", "done" or "exited"                *)
(*   copied     the iterations of copyKVCache that have run                *)
(*   tiles, pc  the iterations of the parallel region and, for each, the   *)
(*              index of its next step in tileSteps                        *)
(*   by         per cache and cell: the iterations that wrote it           *)
(*   count      per cache and cell: how many times it was written          *)
(*   early      the reads <<tile, cache>> of a head that had an unwritten  *)
(*              row among the positions of this call                       *)
(***************************************************************************)
TileShapes == {<<1, 1>>, <<2, 2>>, <<2, 1>>}

TileHeadSizes == {16, 87376}

tileStepsReadFirst(kvCopied) ==
    IF kvCopied THEN <<"gemm1", "gemm2">> ELSE <<"gemm1", "copyK", "gemm2", "copyV">>

(* the cache accesses of one tile of slimAttention, in program order *)
tileSteps(kvCopied) ==
    IF kvCopied THEN <<"gemm1", "gemm2">> ELSE <<"copyK", "gemm1", "copyV", "gemm2">>

CacheCells == {"K", "V"} \X Cells

(* the cells a copy writes, read off the cache it leaves *)
writtenCells(cache) == {c \in DOMAIN cache : cache[c] # Junk}

headCells(kind, past, S, bdx, hdx) ==
    {<<kind, c>> : c \in writtenCells(copyKVCacheHead(EmptyCache, kind, past, S, bdx, hdx))}

copyIterationCells(nKV, past, S, b, h, seq) ==
    UNION {{<<kind, c>> : c \in {d \in writtenCells(copyKVCache(EmptyCache, kind, nKV, past, S)) :
                                    d = <<past + seq, b, h>>}} : kind \in {"K", "V"}}

(* the rows of head (b, h) at the positions of this call *)
callRows(kind, past, S, b, h) ==
    {<<kind, <<p, b, h>>>> : p \in past..(past + S - 1)}

IdleTiles(past, S) ==
    [active |-> FALSE, stage |-> "idle", past |-> past, S |-> S, mBlockSize |-> 0,
     kvCopied |-> FALSE, inner |-> Null, copied |-> {}, tiles |-> {},
     pc |-> <<>>, by |-> [c \in CacheCells |-> {}], count |-> [c \in CacheCells |-> 0],
     early |-> {}]

(* fusedAttention up to the parallel region: the block size, the kernel, kvCopied *)
EnterFused ==
    /\ region.stage = "idle"
    /\ proc[0] = "running"
    /\ att[0][0].st # "none"
    /\ LET res == fusedAttention(att[0][0], reserved1[0], presentKey[0][0], presentValue[0][0],
                                 region.past, region.S)
           third == IF res.exits THEN 0
                    ELSE IF res.inner = "slimAttention"
                         THEN CDiv(region.S + res.mBlockSize - 1, res.mBlockSize)
                         ELSE shardSplits(ctx.numThreads, ctx.batchSize, QSizeOf(0, 0))
           tiles == (0..(ctx.batchSize - 1)) \X (0..(QSizeOf(0, 0) - 1)) \X (0..(third - 1))
       IN  /\ region' = [region EXCEPT
                            !.stage = IF res.exits THEN "exited"
                                      ELSE IF res.kvCopied THEN "copy" ELSE "tiles",
                            !.mBlockSize = res.mBlockSize,
                            !.kvCopied = res.kvCopied,
                            !.inner = res.inner,
                            !.tiles = tiles,
                            !.pc = [t \in tiles |-> 1]]
           /\ reserved1' = [reserved1 EXCEPT ![0] = res.reserved1]
    /\ UNCHANGED <<normBuf, ctx, tpl, wts, ranks, proc, att, mlp, presentKey, presentValue,
                   step, pos, call, mcall>>

writeCells(cells, who) ==
    [region EXCEPT
        !.by = [c \in CacheCells |-> IF c \in cells THEN @[c] \cup {who} ELSE @[c]],
        !.count = [c \in CacheCells |-> IF c \in cells THEN @[c] + 1 ELSE @[c]]]

CopyIterations ==
    (0..(ctx.batchSize - 1)) \X (0..(KVSizeOf(0, 0) - 1)) \X (0..(region.S - 1))

(* one iteration (b, h, seq) of the parallel loop of copyKVCache; the loop ends at
   the barrier that closes it *)
CopyIteration(it) ==
    /\ region.stage = "copy"
    /\ it \in CopyIterations \ region.copied
    /\ region' = [writeCells(copyIterationCells(KVSizeOf(0, 0), region.past, region.S,
                                                it[1], it[2], it[3]),
                             <<"copy", it>>)
                     EXCEPT !.copied = @ \cup {it},
                            !.stage = IF region.copied \cup {it} = CopyIterations
                                      THEN "tiles" ELSE "copy"]
    /\ UNCHANGED <<normBuf, ctx, tpl, wts, ranks, proc, att, mlp, reserved1, presentKey,
                   presentValue, step, pos, call, mcall>>

unwritten(cells) == {c \in cells : region.count[c] = 0}

(* the next cache access of tile t = (b, i, mb) or shard t = (b, i, s) *)
TileStep(t) ==
    /\ region.stage = "tiles"
    /\ t \in region.tiles
    /\ region.pc[t] <= Len(tileSteps(region.kvCopied))
    /\ LET what == tileSteps(region.kvCopied)[region.pc[t]]
           groupNum == CDiv(ctx.attHeadNum, ctx.kvHeadNum)
           kind == IF what \in {"copyK", "gemm1"} THEN "K" ELSE "V"
           after == IF what \in {"copyK", "copyV"}
                    THEN writeCells(headCells(kind, region.past, region.S, t[1], t[2]),
                                    <<"tile", t>>)
                    ELSE [region EXCEPT
                             !.early = IF unwritten(callRows(kind, region.past, region.S, t[1],
                                                             CDiv(t[2], groupNum))) = {}
                                       THEN @ ELSE @ \cup {<<t, kind>>}]
           pc2 == [region.pc EXCEPT ![t] = @ + 1]
       IN  region' = [after EXCEPT
                         !.pc = pc2,
                         !.stage = IF \A u \in region.tiles :
                                          pc2[u] > Len(tileSteps(region.kvCopied))
                                   THEN "done" ELSE "tiles"]
    /\ UNCHANGED <<normBuf, ctx, tpl, wts, ranks, proc, att, mlp, reserved1, presentKey,
                   presentValue, step, pos, call, mcall>>

InitTiles ==
    \E hk \in TileShapes, b \in {1, 2}, th \in {1, 8}, hs \in TileHeadSizes,
       past \in 0..1, S \in 1..MaxSeq :
        /\ past + S <= MaxTotal
        /\ hs # 16 => b = 1
        /\ Start([BaseCtx EXCEPT !.attHeadNum = hk[1], !.kvHeadNum = hk[2], !.batchSize = b,
                                 !.numThreads = th, !.attHeadSize = hs],
                 BaseTpl, NoWeights, {0})
        /\ region = IdleTiles(past, S)

NextTiles ==
    \/ \E r \in ranks, l \in Layers : Construct(r, l)
    \/ EnterFused
    \/ \E it \in CopyIterations : CopyIteration(it)
    \/ \E t \in region.tiles : TileStep(t)

SpecTiles == InitTiles /\ [][NextTiles]_vars

InFused == region.stage \in {"copy", "tiles", "done"}

NewRows ==
    {c \in CacheCells : /\ c[2][1] >= region.past /\ c[2][1] < region.past + region.S
                        /\ c[2][3] < KVSizeOf(0, 0)}

(* C18: fusedAttention copies the current K and V into the cache before the parallel
   region iff kvHeadNum < attHeadNum, or mBlockSize != inputSeqLen, or the head-sharded
   path is taken; otherwise each (batch, head) tile copies its own head inside the
   region.  In both modes every cell (pastSeqLen+seq, b, h), seq in [0, S), is written
   exactly once per call, and no two workers write the same cell. *)
C18_CopyOncePerCell ==
    InFused =>
        /\ region.kvCopied = (\/ ctx.kvHeadNum < ctx.attHeadNum
                              \/ region.mBlockSize # region.S
                              \/ region.inner = "crossAttnShardHead")
        /\ (region.stage = "copy" \/ region.copied # {}) => region.kvCopied
        /\ \A c \in CacheCells :
               /\ region.count[c] <= 1
               /\ Cardinality(region.by[c]) <= 1
               /\ c \notin NewRows => region.count[c] = 0
               /\ (region.stage = "done" /\ c \in NewRows) => region.count[c] = 1
               /\ (region.stage = "tiles" /\ region.kvCopied /\ c \in NewRows) => region.count[c] = 1
               /\ \A who \in region.by[c] :
                      IF region.kvCopied THEN who[1] = "copy"
                      ELSE who = <<"tile", <<c[2][2], c[2][3], 0>>>>

(* two batch items with two heads each: every tile copied its own head *)
C18_Witness ==
    /\ region.stage = "done"
    /\ ~region.kvCopied
    /\ ctx.batchSize = 2 /\ QSizeOf(0, 0) = 2 /\ region.S = 2
    /\ \A c \in NewRows : region.count[c] = 1

(* a prompt split along M: the copy ran before the tiles *)
C18_WitnessSplit ==
    /\ region.stage = "done"
    /\ region.kvCopied
    /\ region.mBlockSize # region.S
    /\ ctx.kvHeadNum = ctx.attHeadNum
    /\ region.inner = "slimAttention"

C18_WitnessShardHead ==
    /\ region.stage = "done"
    /\ region.kvCopied
    /\ ctx.kvHeadNum = ctx.attHeadNum
    /\ region.past = 1
    /\ region.inner = "crossAttnShardHead"

(* C19: in slimAttention and crossAttnShardHead, under every interleaving of the
   workers, whenever a tile reads the cached K head for Q*K^T or the cached V head for
   softmax*V, the rows of that head for the positions of the current call are already
   in the cache (by the copy before the region or by the tile's own copy); no tile reads
   a row that another worker is still to write. *)
C19_ReadsAfterWrites ==
    InFused =>
        /\ region.early = {}
        /\ \A t \in region.tiles :
               \A k \in 1..(region.pc[t] - 1) :
                   LET what == tileSteps(region.kvCopied)[k]
                       groupNum == CDiv(ctx.attHeadNum, ctx.kvHeadNum)
                   IN  what \in {"gemm1", "gemm2"} =>
                           unwritten(callRows(IF what = "gemm1" THEN "K" ELSE "V",
                                              region.past, region.S, t[1],
                                              CDiv(t[2], groupNum))) = {}

(* a tile has read its K and V heads while another tile has not copied anything yet *)
C19_Witness ==
    /\ region.stage = "tiles"
    /\ ~region.kvCopied
    /\ \E t \in region.tiles : \E u \in region.tiles :
           /\ region.pc[t] > Len(tileSteps(FALSE))
           /\ region.pc[u] = 1

(* the shards of a grouped-query head have read the rows the copy left *)
C19_WitnessShardHead ==
    /\ region.stage = "done"
    /\ region.inner = "crossAttnShardHead"
    /\ ctx.kvHeadNum < ctx.attHeadNum
    /\ region.past = 1

(***************************************************************************)
(* ctx->reserved1 across layers and steps (checked under SpecStage): one   *)
(* rank runs one or two layers, in one or two pipeline stages, through a   *)
(* prefill and the decode steps that follow; the wide head makes           *)
(* getMBlockSize split a prompt of 2 or 3 tokens.                          *)
(***************************************************************************)
StageShapes == {<<1, 1>>, <<2, 1>>, <<2, 2>>}

InitStage ==
    \E ls \in StageShapes, hs \in TileHeadSizes, th \in {1, 8}, bf \in BOOLEAN,
       ft \in 1..(MaxSeq - 1) :
        /\ Start([BaseCtx EXCEPT !.attHeadNum = 1, !.kvHeadNum = 1, !.layers = ls[1],
                                 !.ppSize = ls[2], !.numThreads = th, !.attHeadSize = hs],
                 [BaseTpl EXCEPT !.bf16 = bf, !.flashThresh = ft], NoWeights, {0})
        /\ region = NoRegion

SpecStage == InitStage /\ [][Next]_vars

(* the layer whose Attention::forward process r runs next *)
ActingLayer(r) == pos[r] \div 2

(* C21 as stated: ctx.reserved1 is written only by a layer that begins a pipeline
   stage and only at prefill time (pastSeqLen == 0); any other layer, and any call with
   pastSeqLen > 0, leaves it unchanged. *)
C21_WrittenAtPrefillOnly ==
    [][\A r \in ranks :
           reserved1'[r] # reserved1[r] =>
               /\ stageFirst(ActingLayer(r))
               /\ step.pastSeqLen = 0]_vars

(* C21 amended: ctx.reserved1 is written only by the fusedAttention of a layer that
   begins a pipeline stage, on every such call: getMBlockSize(inputSeqLen) when
   pastSeqLen == 0 and inputSeqLen when pastSeqLen > 0; the fusedAttention of any other
   layer, and every other kernel, leaves it unchanged. *)
C21_WrittenByStageFirstLayer ==
    [][\A r \in ranks :
           /\ reserved1'[r] # reserved1[r] =>
                  /\ pos[r] % 2 = 0
                  /\ stageFirst(ActingLayer(r))
                  /\ selectKernel(step.pastSeqLen, step.inputSeqLen, tpl.flashThresh, tpl.bf16)
                         = "fusedAttention"
           /\ (/\ pos[r] % 2 = 0 /\ pos'[r] = pos[r] + 1
               /\ stageFirst(ActingLayer(r))
               /\ selectKernel(step.pastSeqLen, step.inputSeqLen, tpl.flashThresh, tpl.bf16)
                      = "fusedAttention") =>
                  reserved1'[r] = IF step.pastSeqLen = 0
                                  THEN getMBlockSize(step.inputSeqLen, ctx.attHeadSize, sizeofImT)
                                  ELSE step.inputSeqLen]_vars

(* a decode step of one token after a prompt of two: the first layer has overwritten
   the block size of the prompt, and the second layer has read it *)
C21_Witness ==
    \E r \in ranks :
        /\ ctx.layers = 2 /\ ctx.ppSize = 1
        /\ step.pastSeqLen = 2 /\ step.inputSeqLen = 1
        /\ getMBlockSize(2, ctx.attHeadSize, sizeofImT) = 2
        /\ call[r][0].n = 2 /\ call[r][0].kernels = <<"fusedAttention">>
        /\ call[r][1].n = 2 /\ call[r][1].pastSeqLen = 2
        /\ call[r][1].mBlockSize = 1
        /\ reserved1[r] = 1

(* C22: when the layers of a stage run in increasing layerId order within each step,
   the mBlockSize every layer passes to slimAttention equals the step's inputSeqLen in
   a decode step (pastSeqLen > 0) and getMBlockSize(inputSeqLen) in a prefill step; no
   layer uses a block size left over from an earlier step. *)
C22_BlockSizeOfThisStep ==
    \A r \in ranks : \A l \in Layers :
        (Called(r, l) /\ call[r][l].inner = "slimAttention") =>
            call[r][l].mBlockSize =
                IF call[r][l].pastSeqLen > 0 THEN call[r][l].inputSeqLen
                ELSE getMBlockSize(call[r][l].inputSeqLen, ctx.attHeadSize, sizeofImT)

(* a layer that does not begin a stage, in a decode step of two tokens that follows a
   prompt whose block size was one row *)
C22_Witness ==
    \E r \in ranks :
        /\ ctx.layers = 2 /\ ctx.ppSize = 1
        /\ call[r][1].n = 2 /\ call[r][1].inner = "slimAttention"
        /\ call[r][1].pastSeqLen = 2 /\ call[r][1].inputSeqLen = 2
        /\ call[r][1].mBlockSize = 2
        /\ getMBlockSize(2, ctx.attHeadSize, sizeofImT) = 1

(***************************************************************************)
(* The score buffer of slimAttention (checked under SpecScore): every tile *)
(* (b, i, mb) is run by some thread tid of the team of ctx->numThreads     *)
(* threads and writes its m x n scores, row stride scoreStride, at         *)
(* scoreBuf + tid * mBlockSize * scoreStride.                              *)
(*   stage       "idle", "tiles", "done", or "other" (not slimAttention)   *)
(*   buffer      "qkScores" or "scoreBuf" (the pool buffer)                *)
(*   ran         the tiles that have run                                   *)
(*   tileOf      per tile that ran: the thread and the offsets it wrote    *)
(***************************************************************************)
ScoreCapacities == {8, 64}

scoreStrideOf(pastSeqLen, inputSeqLen) ==
    IF pastSeqLen > 0 THEN CDiv(pastSeqLen + inputSeqLen + 15, 16) * 16 ELSE inputSeqLen

(* which buffer the tiles write: ctx->qkScores unless the working set exceeds it *)
scoreBufOf(numThreads, mBlockSize, scoreStride, capacity) ==
    IF numThreads * mBlockSize * scoreStride > capacity THEN "scoreBuf" ELSE "qkScores"

scoreTileBaseByRow(tid, mBlockSize, scoreStride) ==
    tid * scoreStride

(* C = scoreBuf + omp_get_thread_num() * mBlockSize * scoreStride *)
scoreTileBase(tid, mBlockSize, scoreStride) ==
    tid * mBlockSize * scoreStride

(* the rows [startSeq, endSeq) of M block mb *)
mBlockRows(mb, mBlockSize, inputSeqLen) ==
    LET startSeq == mb * mBlockSize
        endSeq == IF startSeq + mBlockSize < inputSeqLen THEN startSeq + mBlockSize
                  ELSE inputSeqLen
    IN  <<startSeq, endSeq>>

(* the elements gemm1 writes: m rows of n scores, ldc apart, from C on *)
gemmOffsets(C, m, n, ldc) ==
    {C + row * ldc + col : row \in 0..(m - 1), col \in 0..(n - 1)}

IdleScore(past, S, capacity) ==
    [active |-> FALSE, stage |-> "idle", past |-> past, S |-> S, capacity |-> capacity,
     mBlockSize |-> 0, scoreStride |-> 0, buffer |-> Null, tiles |-> {}, ran |-> {},
     tileOf |-> <<>>]

(* fusedAttention up to the parallel region of slimAttention *)
EnterSlim ==
    /\ region.stage = "idle"
    /\ proc[0] = "running"
    /\ att[0][0].st # "none"
    /\ LET res == fusedAttention(att[0][0], reserved1[0], presentKey[0][0], presentValue[0][0],
                                 region.past, region.S)
           slim == res.inner = "slimAttention" /\ ~res.exits
           mBlockNum == IF slim THEN CDiv(region.S + res.mBlockSize - 1, res.mBlockSize) ELSE 0
           scoreStride == scoreStrideOf(region.past, region.S)
       IN  /\ region' = [region EXCEPT
                            !.stage = IF slim THEN "tiles" ELSE "other",
                            !.mBlockSize = res.mBlockSize,
                            !.scoreStride = scoreStride,
                            !.buffer = scoreBufOf(ctx.numThreads, res.mBlockSize, scoreStride,
                                                  region.capacity),
                            !.tiles = (0..(ctx.batchSize - 1)) \X (0..(QSizeOf(0, 0) - 1))
                                          \X (0..(mBlockNum - 1))]
           /\ reserved1' = [reserved1 EXCEPT ![0] = res.reserved1]
    /\ UNCHANGED <<normBuf, ctx, tpl, wts, ranks, proc, att, mlp, presentKey, presentValue,
                   step, pos, call, mcall>>

(* thread tid runs tile t = (b, i, mb): Q * K into its part of the score buffer *)
ScoreTile(t, tid) ==
    /\ region.stage = "tiles"
    /\ t \in region.tiles \ region.ran
    /\ LET rows == mBlockRows(t[3], region.mBlockSize, region.S)
           m == rows[2] - rows[1]
           n == region.past + region.S
           C == scoreTileBase(tid, region.mBlockSize, region.scoreStride)
           ran == region.ran \cup {t}
       IN  region' = [region EXCEPT
                         !.ran = ran,
                         !.tileOf = [u \in ran |->
                                        IF u = t
                                        THEN [tid |-> tid, rows |-> rows, m |-> m, n |-> n,
                                              offsets |-> gemmOffsets(C, m, n, region.scoreStride)]
                                        ELSE region.tileOf[u]],
                         !.stage = IF ran = region.tiles THEN "done" ELSE "tiles"]
    /\ UNCHANGED <<normBuf, ctx, tpl, wts, ranks, proc, att, mlp, reserved1, presentKey,
                   presentValue, step, pos, call, mcall>>

InitScore ==
    \E hk \in {<<1, 1>>, <<2, 2>>}, b \in {1, 2}, th \in {1, 2}, hs \in TileHeadSizes,
       cap \in ScoreCapacities, past \in 0..1, S \in 1..MaxSeq :
        /\ past + S <= MaxTotal
        /\ hs # 16 => b = 1
        /\ Start([BaseCtx EXCEPT !.attHeadNum = hk[1], !.kvHeadNum = hk[2], !.batchSize = b,
                                 !.numThreads = th, !.attHeadSize = hs],
                 BaseTpl, NoWeights, {0})
        /\ region = IdleScore(past, S, cap)

NextScore ==
    \/ \E r \in ranks, l \in Layers : Construct(r, l)
    \/ EnterSlim
    \/ \E t \in region.tiles, tid \in 0..(ctx.numThreads - 1) : ScoreTile(t, tid)

SpecScore == InitScore /\ [][NextScore]_vars

InSlim == region.stage \in {"tiles", "done"}

RoundUp16(x) == ((x + 15) \div 16) * 16

(* C23: in slimAttention the score stride is roundUp(T,16) when pastSeqLen > 0 and S
   otherwise; the score buffer is ctx.qkScores when numThreads*mBlockSize*scoreStride
   fits its capacity and the pool buffer otherwise; each worker's m x T tile
   (m <= mBlockSize, T <= scoreStride) lies inside the worker's own region
   [tid*mBlockSize*scoreStride, (tid+1)*mBlockSize*scoreStride); the M blocks
   [mb*mBlockSize, min((mb+1)*mBlockSize, S)) partition [0, S); regions of different
   workers never overlap. *)
C23_ScoreTilesDisjoint ==
    InSlim =>
        LET T == region.past + region.S
            size == region.mBlockSize * region.scoreStride
        IN  /\ region.scoreStride = IF region.past > 0 THEN RoundUp16(T) ELSE region.S
            /\ region.buffer = "qkScores" <=> ctx.numThreads * size <= region.capacity
            /\ T <= region.scoreStride
            /\ \A t \in region.ran :
                   LET w == region.tileOf[t]
                   IN  /\ w.m >= 1 /\ w.m <= region.mBlockSize /\ w.n = T
                       /\ w.rows = <<t[3] * region.mBlockSize,
                                     Min((t[3] + 1) * region.mBlockSize, region.S)>>
                       /\ Cardinality(w.offsets) = w.m * T
                       /\ \A o \in w.offsets : w.tid * size <= o /\ o < (w.tid + 1) * size
                       /\ \A u \in region.ran :
                              region.tileOf[u].tid # w.tid =>
                                  region.tileOf[u].offsets \cap w.offsets = {}
            /\ \A b \in 0..(ctx.batchSize - 1) : \A i \in 0..(QSizeOf(0, 0) - 1) :
                   \A row \in 0..(region.S - 1) :
                       Cardinality({t \in region.tiles :
                                       /\ t[1] = b /\ t[2] = i
                                       /\ t[3] * region.mBlockSize <= row
                                       /\ row < Min((t[3] + 1) * region.mBlockSize, region.S)}) = 1

(* two threads have each written a tile of two rows *)
C23_Witness ==
    /\ region.stage = "done"
    /\ region.mBlockSize = 2
    /\ \E t \in region.ran : \E u \in region.ran :
           /\ region.tileOf[t].tid = 0 /\ region.tileOf[u].tid = 1
           /\ region.tileOf[t].m = 2 /\ region.tileOf[u].m = 2

(* a prompt of three rows in blocks of one row *)
C23_WitnessSplit ==
    /\ region.stage = "done"
    /\ region.mBlockSize = 1 /\ region.S = 3 /\ region.past = 0
    /\ region.buffer = "qkScores"

(* a working set larger than ctx.qkScores: the tiles are in the pool buffer *)
C23_WitnessPool ==
    /\ region.stage = "done"
    /\ region.buffer = "scoreBuf"
    /\ ctx.numThreads * region.mBlockSize * region.scoreStride > region.capacity

(* a decode step: rows of 16 scores for 3 keys *)
C23_WitnessDecode ==
    /\ region.stage = "done"
    /\ region.past = 1 /\ region.S = 2
    /\ region.scoreStride = 16
    /\ region.buffer = "qkScores"

(***************************************************************************)
(* The scratch of crossAttnShardHead (checked under SpecScratch): one      *)
(* token per batch item, one head, pastSeqLen+1 <= MaxKeyLen keys, 2 to    *)
(* MaxShards+1 shards per head.  Iteration (hd, s) writes its scores into  *)
(* ctx->qkScores and its partial output into shardedOut.                   *)
(*   scores[t], outs[t]   the elements iteration t wrote, or NotRun        *)
(***************************************************************************)
NotRun == {-1}

strideCOf(pastSeqLen, inputSeqLen) ==
    IF pastSeqLen > 0 THEN CDiv(pastSeqLen + inputSeqLen + 15, 16) * 16 ELSE inputSeqLen

(* the elements of qkScores that small_gemm_transb writes for shard s of head hd:
   C = qkScores + hd * inputSeqLen * strideC + nOff, one row of n scores *)
shardScoreOffsets(hd, s, N, splits, inputSeqLen, strideC) ==
    LET rg == shardRange(N, splits, s)
    IN  {hd * inputSeqLen * strideC + rg.nOff + c : c \in 0..(rg.n - 1)}

(* the elements of shardedOut that small_gemm writes: &shardedOut[threadIdx * attHeadSize] *)
shardOutOffsets(threadIdx, headSize) ==
    {threadIdx * headSize + c : c \in 0..(headSize - 1)}

InitScratch ==
    \E b \in {1, 2}, past \in 0..(MaxKeyLen - 1), sp \in 2..(MaxShards + 1) :
        /\ Start([BaseCtx EXCEPT !.attHeadNum = 1, !.kvHeadNum = 1, !.batchSize = b,
                                 !.numThreads = b * sp],
                 BaseTpl, NoWeights, {0})
        /\ region = [active |-> FALSE, past |-> past, S |-> 1, heads |-> b,
                     splits |-> shardSplits(b * sp, b, 1),
                     strideC |-> strideCOf(past, 1),
                     scores |-> [t \in 0..(b * sp - 1) |-> NotRun],
                     outs |-> [t \in 0..(b * sp - 1) |-> NotRun]]

ShardScratch(t) ==
    /\ region.scores[t] = NotRun
    /\ region' = [region EXCEPT
                     !.scores[t] = shardScoreOffsets(t \div region.splits, t % region.splits,
                                                     region.past + region.S, region.splits,
                                                     region.S, region.strideC),
                     !.outs[t] = shardOutOffsets(t, ctx.attHeadSize)]
    /\ UNCHANGED <<normBuf, ctx, tpl, wts, ranks, proc, att, mlp, reserved1, presentKey,
                   presentValue, step, pos, call, mcall>>

NextScratch == \E t \in DOMAIN region.scores : ShardScratch(t)

SpecScratch == InitScratch /\ [][NextScratch]_vars

ScratchRan == {t \in DOMAIN region.scores : region.scores[t] # NotRun}

OutSlotsDisjoint ==
    \A t \in ScratchRan :
        /\ Cardinality(region.outs[t]) = ctx.attHeadSize
        /\ \A u \in ScratchRan : u # t => region.outs[u] \cap region.outs[t] = {}

ScoresInOwnRow ==
    \A t \in ScratchRan :
        LET hd == t \div region.splits
        IN  /\ \A o \in region.scores[t] :
                   hd * region.S * region.strideC <= o /\ o < (hd + 1) * region.S * region.strideC
            /\ \A u \in ScratchRan : u # t => region.scores[u] \cap region.scores[t] = {}

(* C24 as stated: for every T and splits >= 2 the score columns written by shard s of
   head (b,i) lie inside that head's own row of strideC elements in qkScores and
   overlap neither the columns of another shard of the head nor those of another head,
   and each shard's slot of headSize floats in shardedOut is written by that shard
   only. *)
C24_ScratchDisjoint ==
    ScoresInOwnRow /\ OutSlotsDisjoint

(* the same when the first splits-1 blocks of nb columns fit into the T columns *)
C24_ScratchDisjointWhenBlocksFit ==
    /\ OutSlotsDisjoint
    /\ (region.splits - 1) * CDiv(region.past + region.S + region.splits - 1, region.splits)
           <= region.past + region.S
       => ScoresInOwnRow

(* a one-token prompt, two heads and three shards: shard 1 of head 0 and shard 0 of
   head 1 wrote the same score *)
C24_WitnessOverlap ==
    /\ region.past = 0 /\ region.heads = 2 /\ region.splits = 3
    /\ region.scores[1] # NotRun /\ region.scores[3] # NotRun
    /\ region.scores[1] \cap region.scores[3] # {}

C24_WitnessBlocksFit ==
    /\ region.past = 6 /\ region.heads = 2 /\ region.splits = 3
    /\ ScratchRan = DOMAIN region.scores
    /\ ScoresInOwnRow

(***************************************************************************)
(* The tiling of scaledDpAttention (checked under SpecFlash): a prompt of  *)
(* 2..MaxFlash tokens (tgtLen = srcLen), one batch item and one Q head.    *)
(* Every source block m is an iteration of the parallel loop; it walks the *)
(* target blocks in its inner loop and calls incrementalTileAttention for  *)
(* each.                                                                   *)
(*   blocks[m]   the calls <<m, qRealBlk, b, kvRealBlk>> of source block   *)
(*               m, in the order they were made, or NoCalls                *)
(***************************************************************************)
MaxFlash == 1100

NoCalls == <<>>

RECURSIVE floorLog2(_)
floorLog2(x) == IF x <= 1 THEN 0 ELSE 1 + floorLog2(x \div 2)

(* (int)std::pow(2, int(std::log2(srcLen / 2))) *)
minBlkOf(srcLen) == Pow2(floorLog2(CDiv(srcLen, 2)))

srcBlkOf(srcLen) == Min(256, minBlkOf(srcLen))

tgtBlkOf(tgtLen) == Min(512, tgtLen)

qRealBlkFull(srcBlk, srcLen, m) ==
    srcBlk

qRealBlkOf(srcBlk, srcLen, m) ==
    Min(srcBlk, srcLen - m)

(* for (int b = 0; b < tgtLen; b += tgtBlk): the calls of one source block *)
RECURSIVE targetLoop(_, _, _, _, _)
targetLoop(m, qRealBlk, b, tgtLen, tgtBlk) ==
    IF b < tgtLen
    THEN <<<<m, qRealBlk, b, Min(tgtBlk, tgtLen - b)>>>>
             \o targetLoop(m, qRealBlk, b + tgtBlk, tgtLen, tgtBlk)
    ELSE <<>>

(* for (int m = 0; m < srcLen; m += srcBlk): the values m takes *)
RECURSIVE sourceLoop(_, _, _)
sourceLoop(m, srcLen, srcBlk) ==
    IF m < srcLen THEN {m} \cup sourceLoop(m + srcBlk, srcLen, srcBlk) ELSE {}

InitFlash ==
    \E S \in 2..MaxFlash :
        /\ Start([BaseCtx EXCEPT !.attHeadNum = 1, !.kvHeadNum = 1], BaseTpl, NoWeights, {0})
        /\ region = [active |-> FALSE, srcLen |-> S, tgtLen |-> S,
                     srcBlk |-> srcBlkOf(S), tgtBlk |-> tgtBlkOf(S),
                     blocks |-> [m \in sourceLoop(0, S, srcBlkOf(S)) |-> NoCalls]]

FlashTile(m) ==
    /\ region.blocks[m] = NoCalls
    /\ region' = [region EXCEPT
                     !.blocks[m] = targetLoop(m, qRealBlkOf(region.srcBlk, region.srcLen, m),
                                              0, region.tgtLen, region.tgtBlk)]
    /\ UNCHANGED <<normBuf, ctx, tpl, wts, ranks, proc, att, mlp, reserved1, presentKey,
                   presentValue, step, pos, call, mcall>>

NextFlash == \E m \in DOMAIN region.blocks : FlashTile(m)

SpecFlash == InitFlash /\ [][NextFlash]_vars

FlashRan == {m \in DOMAIN region.blocks : region.blocks[m] # NoCalls}

FlashDone == FlashRan = DOMAIN region.blocks

(* the calls of a source block cover the key columns [0, T) block after block *)
TargetChain(calls, T) ==
    /\ Len(calls) >= 1
    /\ calls[1][3] = 0
    /\ \A k \in 1..Len(calls) :
           /\ calls[k][4] >= 1
           /\ calls[k][3] + calls[k][4] = (IF k = Len(calls) THEN T ELSE calls[k + 1][3])

(* the source blocks that ran are disjoint intervals of [0, S); all of them cover it *)
SourceChain ==
    /\ \A m \in FlashRan :
           LET q == region.blocks[m][1][2]
           IN  /\ q >= 1 /\ m >= 0 /\ m + q <= region.srcLen
               /\ \A k \in 1..Len(region.blocks[m]) :
                      region.blocks[m][k][1] = m /\ region.blocks[m][k][2] = q
               /\ \A m2 \in FlashRan : m2 > m => m2 >= m + q
    /\ FlashDone =>
           /\ 0 \in FlashRan
           /\ \A m \in FlashRan :
                  LET e == m + region.blocks[m][1][2]
                  IN  e = region.srcLen \/ e \in FlashRan

(* C25: in scaledDpAttention, for every S >= 2 and T = S, srcBlk =
   min(256, 2^floor(log2(S/2))) >= 1 and tgtBlk = min(512, T) >= 1, both block loops
   terminate, the source blocks partition the query rows [0, S) and the target blocks
   the key columns [0, T), so every (query row, key column) pair is processed by
   exactly one incrementalTileAttention call, in increasing target-block order. *)
C25_TilesPartition ==
    /\ region.srcBlk >= 1 /\ region.srcBlk <= 256
    /\ \E e \in 0..8 : /\ region.srcBlk = Pow2(e)
                       /\ IF Pow2(e) < 256
                          THEN Pow2(e) <= region.srcLen \div 2 /\ region.srcLen \div 2 < Pow2(e + 1)
                          ELSE region.srcLen \div 2 >= 256
    /\ region.tgtBlk >= 1
    /\ region.tgtBlk = (IF region.tgtLen < 512 THEN region.tgtLen ELSE 512)
    /\ SourceChain
    /\ \A m \in FlashRan : TargetChain(region.blocks[m], region.tgtLen)

(* 1100 rows: five source blocks of at most 256 rows, each with three target blocks *)
C25_Witness ==
    /\ region.srcLen = 1100
    /\ FlashDone
    /\ Cardinality(FlashRan) = 5
    /\ \A m \in FlashRan : Len(region.blocks[m]) = 3
    /\ region.blocks[1024] = <<<<1024, 76, 0, 512>>, <<1024, 76, 512, 512>>, <<1024, 76, 1024, 76>>>>

(* the shortest prompt: two blocks of one row *)
C25_WitnessTwoRows ==
    /\ region.srcLen = 2
    /\ FlashDone
    /\ region.srcBlk = 1 /\ region.tgtBlk = 2
    /\ Cardinality(FlashRan) = 2

(***************************************************************************)
(* catGateUpWeights in memory (checked under SpecCat).  A matrix is its    *)
(* element array, row after row; a nibble-packed type (uint4x2_t,          *)
(* nf4x2_t) holds two values per element.  The rows of the parallel loop   *)
(* are copied in any order, then the scale, zero and sum vectors.          *)
(*   cat        the element array of catWeights                            *)
(*   rowsDone   the rows i whose two memcpy calls have run                 *)
(*   vec        the three concatenated vectors, once copied                *)
(***************************************************************************)
WeightRows == 1..2

(* elements per row of a matrix of cols values *)
rowElems(cols, nibble) == IF nibble THEN CDiv(cols, 2) ELSE cols

(* the element array of the converted gate (up) weight: element e of row i *)
weightData(which, rows, cols, nibble) ==
    [k \in 0..(rows * rowElems(cols, nibble) - 1) |->
        <<which, k \div rowElems(cols, nibble), k % rowElems(cols, nibble)>>]

(* the scale, zero and sum of a converted weight: one entry per column when the
   weight type is quantized, empty otherwise *)
weightVector(which, what, cols, quantized) ==
    IF quantized THEN [j \in 1..cols |-> <<which, what, j>>] ELSE <<>>

(* memcpy(dst + at, src + from, n elements) on element arrays *)
memcpyAt(dst, at, src, from, n) ==
    [k \in DOMAIN dst |-> IF k >= at /\ k < at + n THEN src[from + (k - at)] ELSE dst[k]]

catStrideNotHalved(catCols, nibble) ==
    catCols

(* Stride: catWeights.Cols(), halved for the nibble-packed types *)
catStride(catCols, nibble) ==
    IF nibble THEN catCols \div 2 ELSE catCols

(* iteration i of the loop over the rows: two memcpy calls *)
catRow(cat, gate, up, i, gateCols, upCols, nibble) ==
    LET Stride == catStride(gateCols + upCols, nibble)
        N == IF nibble THEN gateCols \div 2 ELSE gateCols
    IN  memcpyAt(memcpyAt(cat, i * Stride, gate, i * N, N), i * Stride + N, up, i * N, N)

(* the memcpy calls that fill catWeightsScale, catWeightsZero and catWeightsSum *)
catVectors(gateCols, upCols, quantized) ==
    LET gs == weightVector("gate", "scale", gateCols, quantized)
        us == weightVector("up", "scale", upCols, quantized)
        gz == weightVector("gate", "zero", gateCols, quantized)
        uz == weightVector("up", "zero", upCols, quantized)
        gm == weightVector("gate", "sum", gateCols, quantized)
        um == weightVector("up", "sum", upCols, quantized)
        M == Len(gs)
        N == Len(us)
        M2 == Len(gm)
        N2 == Len(um)
    IN  [scale |-> [j \in 1..(Len(gs) + Len(us)) |-> IF j <= M THEN gs[j] ELSE us[j - M]],
         zero |-> [j \in 1..(Len(gz) + Len(uz)) |-> IF j <= M THEN gz[j] ELSE uz[j - M]],
         sum |-> [j \in 1..(Len(gm) + Len(um)) |-> IF j <= M2 THEN gm[j] ELSE um[j - M2]]]

InitCat ==
    \E im \in 2..(2 * MaxInter), idx \in {0, 1}, rows \in WeightRows, nibble \in BOOLEAN,
       quantized \in BOOLEAN :
        LET it == splitTaskRange(im, 2, idx)
            cols == it[2] - it[1]
        IN  /\ nibble => (quantized /\ cols % 2 = 0)
            /\ Start([BaseCtx EXCEPT !.intermediateSize = im, !.numSplit = 2],
                     [BaseTpl EXCEPT !.catMLP = TRUE], NoWeights, {idx})
            /\ region = [active |-> FALSE, rows |-> rows, cols |-> cols, nibble |-> nibble,
                         quantized |-> quantized,
                         cat |-> [k \in 0..(rows * rowElems(2 * cols, nibble) - 1) |-> Junk],
                         rowsDone |-> {}, vec |-> <<>>]

CatRow(i) ==
    /\ i \in (0..(region.rows - 1)) \ region.rowsDone
    /\ region' = [region EXCEPT
                     !.cat = catRow(region.cat,
                                    weightData("gate", region.rows, region.cols, region.nibble),
                                    weightData("up", region.rows, region.cols, region.nibble),
                                    i, region.cols, region.cols, region.nibble),
                     !.rowsDone = @ \cup {i}]
    /\ UNCHANGED <<normBuf, ctx, tpl, wts, ranks, proc, att, mlp, reserved1, presentKey,
                   presentValue, step, pos, call, mcall>>

CatVectors ==
    /\ region.rowsDone = 0..(region.rows - 1)
    /\ region.vec = <<>>
    /\ region' = [region EXCEPT !.vec = catVectors(region.cols, region.cols, region.quantized)]
    /\ UNCHANGED <<normBuf, ctx, tpl, wts, ranks, proc, att, mlp, reserved1, presentKey,
                   presentValue, step, pos, call, mcall>>

NextCat ==
    \/ \E i \in 0..(region.rows - 1) : CatRow(i)
    \/ CatVectors

SpecCat == InitCat /\ [][NextCat]_vars

(* element e of row i of a matrix stored row after row *)
ElemOf(data, cols, nibble, i, e) == data[i * rowElems(cols, nibble) + e]

(* C26: catGateUpWeights produces a matrix of gate.Cols()+up.Cols() columns in which,
   for every row i, the first half of the row is row i of the gate weight and the
   second half row i of the up weight (element stride and half-width halved for the
   nibble-packed types), and the scale, zero and sum vectors are the gate vector
   followed by the up vector. *)
C26_CatIsGateThenUp ==
    /\ \A i \in region.rowsDone :
           \A e \in 0..(rowElems(region.cols, region.nibble) - 1) :
               /\ ElemOf(region.cat, 2 * region.cols, region.nibble, i, e)
                      = <<"gate", i, e>>
               /\ ElemOf(region.cat, 2 * region.cols, region.nibble, i,
                         rowElems(region.cols, region.nibble) + e)
                      = <<"up", i, e>>
    /\ \A i \in (0..(region.rows - 1)) \ region.rowsDone :
           \A e \in 0..(rowElems(2 * region.cols, region.nibble) - 1) :
               ElemOf(region.cat, 2 * region.cols, region.nibble, i, e) = Junk
    /\ region.vec # <<>> =>
           /\ region.vec.scale = weightVector("gate", "scale", region.cols, region.quantized)
                                     \o weightVector("up", "scale", region.cols, region.quantized)
           /\ region.vec.zero = weightVector("gate", "zero", region.cols, region.quantized)
                                    \o weightVector("up", "zero", region.cols, region.quantized)
           /\ region.vec.sum = weightVector("gate", "sum", region.cols, region.quantized)
                                   \o weightVector("up", "sum", region.cols, region.quantized)

(* two rows of a nibble-packed weight with two columns per half *)
C26_Witness ==
    /\ region.nibble /\ region.rows = 2 /\ region.cols = 2
    /\ region.rowsDone = {0, 1}
    /\ region.vec # <<>>
    /\ Len(region.vec.scale) = 4

C26_WitnessBytes ==
    /\ ~region.nibble /\ region.rows = 2 /\ region.cols = 3
    /\ region.rowsDone = {0, 1}
    /\ region.vec # <<>>

(***************************************************************************)
(* The cached K/V head the kernels read for local Q head i (checked under  *)
(* SpecRange).  slimAttention and crossAttnShardHead call                  *)
(* getHead(b, i / groupNum) with groupNum = attHeadNum / kvHeadNum;        *)
(* scaledDpAttention offsets the key by (j / numGroup) * headSize with     *)
(* numGroup = numQHead / numKVHead of the heads of the rank.               *)
(***************************************************************************)
kvHeadRead(i, attHeadNum, kvHeadNum) ==
    LET groupNum == CDiv(attHeadNum, kvHeadNum)
    IN  CDiv(i, groupNum)

kvHeadReadFlash(j, respQHeads, respKVHeads) ==
    LET numGroup == CDiv(respQHeads, respKVHeads)
    IN  CDiv(j, numGroup)

(* the KV head paired with global Q head startQHead+i, relative to the rank's first *)
PairedKVHead(a, i) ==
    CDiv(a.startQHead + i, CDiv(ctx.attHeadNum, ctx.kvHeadNum)) - a.startKVHead

KvHeadPaired(r) ==
    LET a == att[r][0]
    IN  \A i \in 0..(QSize(r) - 1) :
            /\ kvHeadRead(i, ctx.attHeadNum, ctx.kvHeadNum) = PairedKVHead(a, i)
            /\ kvHeadRead(i, ctx.attHeadNum, ctx.kvHeadNum) < a.endKVHead - a.startKVHead
            /\ kvHeadReadFlash(i, QSize(r), a.endKVHead - a.startKVHead) = PairedKVHead(a, i)
            /\ kvHeadReadFlash(i, QSize(r), a.endKVHead - a.startKVHead)
                   < a.endKVHead - a.startKVHead

(* C27: for every rank of every split of a grouped-query model, the cached K/V head
   read for local Q head i is the KV head paired with global Q head startQHead+i,
   (startQHead+i)/groupNum - startKVHead, and is below endKVHead - startKVHead. *)
C27_KvHeadPaired ==
    \A r \in ranks : Constructed(r) => KvHeadPaired(r)

(* the ranks whose Q range starts and ends on a multiple of attHeadNum/kvHeadNum *)
GroupAligned(r) ==
    LET groupNum == ctx.attHeadNum \div ctx.kvHeadNum
    IN  /\ att[r][0].startQHead % groupNum = 0
        /\ att[r][0].endQHead % groupNum = 0

(* C27, for the ranks whose Q range starts and ends on a group boundary: the head
   read is the paired KV head and lies in the rank's KV range. *)
C27_KvHeadPairedWhenAligned ==
    \A r \in ranks : (Constructed(r) /\ GroupAligned(r)) => KvHeadPaired(r)

(* attHeadNum=8, kvHeadNum=4, numSplit=3: rank 1 has Q heads [3,6) and KV heads [1,3);
   local head 1 is global head 4, paired with KV head 2 (local 1), and 1/2 = 0 *)
C27_WitnessMisaligned ==
    /\ ctx.attHeadNum = 8 /\ ctx.kvHeadNum = 4 /\ ctx.numSplit = 3
    /\ Constructed(1)
    /\ att[1][0].startQHead = 3 /\ att[1][0].startKVHead = 1
    /\ kvHeadRead(1, 8, 4) = 0
    /\ PairedKVHead(att[1][0], 1) = 1

(* the same rank in scaledDpAttention: numGroup = 3/2 = 1 and local head 2 reads
   KV index 2 of a rank that holds two KV heads *)
C27_WitnessFlashOutOfRange ==
    /\ ctx.attHeadNum = 8 /\ ctx.kvHeadNum = 4 /\ ctx.numSplit = 3
    /\ Constructed(1)
    /\ kvHeadReadFlash(2, QSize(1), att[1][0].endKVHead - att[1][0].startKVHead) = 2
    /\ att[1][0].endKVHead - att[1][0].startKVHead = 2

C27_WitnessAligned ==
    /\ ctx.attHeadNum = 8 /\ ctx.kvHeadNum = 2 /\ ctx.numSplit = 2
    /\ Constructed(1) /\ GroupAligned(1)
    /\ att[1][0].startQHead = 4 /\ kvHeadRead(3, 8, 2) = 0

(***************************************************************************)
(* Attention::setWeights, the merged QKV weight, scale/zero and bias       *)
(* (checked under SpecBias).  A column of the merged weight is named by    *)
(* the tensor it was copied from and its column there; region[r] holds     *)
(* what rank r stored:                                                     *)
(*   weight   the source column of each column of concatBuf                *)
(*   scale    the source column of each entry of concatScale / concatZero  *)
(*   bias     the source column of each entry of qkvBias (<<>> when the    *)
(*            model has no biases)                                         *)
(***************************************************************************)
BiasHeadSizes == {1, 2}

(* n consecutive columns of tensor which, from column off on *)
sourceCols(which, off, n) == [j \in 1..n |-> <<which, off + j - 1>>]

qkvWeightCols(startQHead, endQHead, startKVHead, endKVHead, headSize) ==
    LET qResponsibleCols == (endQHead - startQHead) * headSize
        kvResponsibleCols == (endKVHead - startKVHead) * headSize
    IN  sourceCols("query", startQHead * headSize, qResponsibleCols)
            \o sourceCols("key", startKVHead * headSize, kvResponsibleCols)
            \o sourceCols("value", startKVHead * headSize, kvResponsibleCols)

qkvScaleCols(startQHead, endQHead, startKVHead, endKVHead, headSize) ==
    LET qResponsibleCols == (endQHead - startQHead) * headSize
        kvResponsibleCols == (endKVHead - startKVHead) * headSize
    IN  sourceCols("query", startQHead * headSize, qResponsibleCols)
            \o sourceCols("key", startKVHead * headSize, kvResponsibleCols)
            \o sourceCols("value", startKVHead * headSize, kvResponsibleCols)

qkvBiasCols(splitIdx, startQHead, endQHead, startKVHead, endKVHead, headSize) ==
    LET qResponsibleCols == (endQHead - startQHead) * headSize
        kvResponsibleCols == (endKVHead - startKVHead) * headSize
    IN  sourceCols("query", splitIdx * qResponsibleCols, qResponsibleCols)
            \o sourceCols("key", startKVHead * headSize, kvResponsibleCols)
            \o sourceCols("value", startKVHead * headSize, kvResponsibleCols)

InitBias ==
    \E h \in 1..MaxHeads, k \in 1..MaxHeads, n \in 1..MaxSplit, hasBias \in BOOLEAN,
       hs \in BiasHeadSizes :
        /\ h % k = 0
        /\ Start([BaseCtx EXCEPT !.attHeadNum = h, !.kvHeadNum = k, !.numSplit = n,
                                 !.attHeadSize = hs],
                 BaseTpl, NoWeights, 0..(n - 1))
        /\ region = [r \in 0..(n - 1) |->
                        [st |-> "none", hasBias |-> hasBias, weight |-> <<>>, scale |-> <<>>,
                         bias |-> <<>>]]

SetQkvWeights(r) ==
    /\ proc[r] = "running"
    /\ att[r][0].st = "constructed"
    /\ region[r].st = "none"
    /\ LET a == att[r][0]
       IN  region' = [region EXCEPT ![r] =
               [st |-> "set", hasBias |-> @.hasBias,
                weight |-> qkvWeightCols(a.startQHead, a.endQHead, a.startKVHead, a.endKVHead,
                                         ctx.attHeadSize),
                scale |-> qkvScaleCols(a.startQHead, a.endQHead, a.startKVHead, a.endKVHead,
                                       ctx.attHeadSize),
                bias |-> IF @.hasBias
                         THEN qkvBiasCols(r, a.startQHead, a.endQHead, a.startKVHead,
                                          a.endKVHead, ctx.attHeadSize)
                         ELSE <<>>]]
    /\ UNCHANGED <<normBuf, ctx, tpl, wts, ranks, proc, att, mlp, reserved1, presentKey,
                   presentValue, step, pos, call, mcall>>

NextBias ==
    \/ \E r \in ranks : Construct(r, 0)
    \/ \E r \in ranks : SetQkvWeights(r)

SpecBias == InitBias /\ [][NextBias]_vars

BiasSet(r) == region[r].st = "set" /\ region[r].hasBias

BiasAligned(r) ==
    /\ Len(region[r].bias) = Len(region[r].weight)
    /\ region[r].weight = region[r].scale
    /\ \A c \in 1..Len(region[r].bias) : region[r].bias[c] = region[r].weight[c]
    /\ QSize(r) > 0 => region[r].bias[1] = <<"query", att[r][0].startQHead * ctx.attHeadSize>>

(* C28: for every rank of every split, uneven ones included, the slice of the query
   bias copied into qkvBias starts at the column where the rank's slice of the query
   weight and scale/zero starts, startQHead*headSize, so bias column c belongs to the
   same output column as weight column c. *)
C28_BiasAlignedWithWeight ==
    \A r \in ranks : BiasSet(r) => BiasAligned(r)

(* the ranks before which every rank has as many Q heads as the rank itself *)
EvenBefore(r) ==
    \/ ctx.attHeadNum % ctx.numSplit = 0
    \/ r < ctx.attHeadNum % ctx.numSplit

(* C28, for even splits and for the ranks before the first shorter one: the bias
   columns are the weight columns. *)
C28_BiasAlignedWhenEven ==
    \A r \in ranks : (BiasSet(r) /\ EvenBefore(r)) => BiasAligned(r)

(* attHeadNum=7, numSplit=3, headSize=2: rank 1 has Q heads [3,5), weight columns from
   6 on, and bias columns from 1*4 = 4 on *)
C28_WitnessUneven ==
    /\ ctx.attHeadNum = 7 /\ ctx.numSplit = 3 /\ ctx.attHeadSize = 2
    /\ BiasSet(1)
    /\ region[1].weight[1] = <<"query", 6>>
    /\ region[1].bias[1] = <<"query", 4>>

C28_WitnessEven ==
    /\ ctx.attHeadNum = 8 /\ ctx.kvHeadNum = 4 /\ ctx.numSplit = 2 /\ ctx.attHeadSize = 2
    /\ BiasSet(1)
    /\ region[1].bias[1] = <<"query", 8>>
    /\ region[1].bias[9] = <<"key", 4>>

(***************************************************************************)
(* The assertion of downProj on the calls of LlamaMLP::forward (checked    *)
(* under SpecMLP).                                                         *)
(***************************************************************************)
MlpCalled(r, l) == mcall[r][l].n > 0

(* the condition downProj asserts on the tensor forward hands to it *)
DownProjAssertOf(r, l) ==
    downProjAssert(Len(mcall[r][l].act), mlp[r][l].downRows, tpl.catMLP)

(* C29: every dimension assertion of LlamaMLP's projection helpers holds on every
   forward call whose weights were set by setWeights for the same rank, on the two-GEMM
   path and on the CATMLP path; the assertion of downProj relating input.Cols() to
   downWeight.Rows() holds on the siluBuf of catWeights.Cols()/2 columns. *)
C29_AssertionsHold ==
    \A r \in ranks : \A l \in Layers :
        MlpCalled(r, l) =>
            /\ DownProjAssertOf(r, l)
            /\ (tpl.asserts => proc[r] # "exited")

(* C29 on the two-GEMM path: input.Cols() = downWeight.Rows() holds and no call is
   stopped. *)
C29_AssertionsHoldTwoGemm ==
    \A r \in ranks : \A l \in Layers :
        (MlpCalled(r, l) /\ ~tpl.catMLP) =>
            /\ DownProjAssertOf(r, l)
            /\ proc[r] # "exited"

(* a CATMLP call whose siluBuf has as many columns as downWeight has rows, stopped by
   the assertion input.Cols() == 2 * downWeight.Rows() *)
C29_WitnessCatAborts ==
    \E r \in ranks :
        /\ tpl.catMLP /\ tpl.asserts
        /\ MlpCalled(r, 0)
        /\ Len(mcall[r][0].act) = mlp[r][0].downRows
        /\ mlp[r][0].downRows > 0
        /\ Len(mlp[r][0].catWeights) = 2 * mlp[r][0].downRows
        /\ proc[r] = "exited"

C29_WitnessTwoGemm ==
    \E r \in ranks :
        /\ ~tpl.catMLP /\ tpl.asserts
        /\ MlpCalled(r, 0)
        /\ Len(mcall[r][0].act) = 2 /\ mlp[r][0].downRows = 2
        /\ mcall[r][0].out # NoGemm

(***************************************************************************)
(* Attention::forward step by step, with the buffers it reads and writes   *)
(* (checked under SpecOrder).  The caller owns input and imBuf; imBuf is   *)
(* either a buffer nothing was written to or the one an earlier call used. *)
(*   pc        the step the call is about to run ("idle" between calls)     *)
(*   input     what the memory behind input holds                          *)
(*   imBuf     what the memory behind imBuf holds                          *)
(*   imWriter  the call that last wrote imBuf (0: nobody)                  *)
(*   qkvIn     what the QKV linear of the call read, qkvFrom the call that *)
(*             had written it                                              *)
(*   trace     the steps of the call that have finished, in order          *)
(***************************************************************************)
MaxCalls == 2

ForwardOrder == <<"norm", "qkv", "postop", "attention", "output">>

AttnResult(n) == <<"attention", n>>

NoForward ==
    [active |-> TRUE, n |-> 0, pc |-> "idle", inputSeqLen |-> 0, pastSeqLen |-> 0,
     input |-> Junk, imBuf |-> Junk, imWriter |-> 0, qkvIn |-> Junk, qkvFrom |-> 0,
     postOps |-> <<>>, residual |-> Junk, out |-> NoGemm, postNorm |-> FALSE,
     trace |-> <<>>]

InitOrder ==
    \E ln \in BOOLEAN, resid \in BOOLEAN, custom \in BOOLEAN, mpe \in {0, 8} :
        /\ Start([BaseCtx EXCEPT !.maxPosEmbed = mpe],
                 [BaseTpl EXCEPT !.doLnBefore = ln, !.inputAsResid = resid,
                                 !.customPos = custom],
                 NoWeights, {0})
        /\ region = NoForward

OrderUnchanged ==
    UNCHANGED <<normBuf, ctx, tpl, wts, ranks, proc, att, mlp, reserved1, presentKey,
                presentValue, step, pos, call, mcall>>

(* the caller calls forward with its input and an imBuf *)
EnterForward(S, fresh) ==
    /\ region.pc = "idle"
    /\ region.n < MaxCalls
    /\ region' = [region EXCEPT
                     !.n = @ + 1, !.pc = "norm",
                     !.pastSeqLen = region.pastSeqLen + region.inputSeqLen,
                     !.inputSeqLen = S,
                     !.input = InputOf(region.n + 1, 0),
                     !.imBuf = IF fresh THEN Junk ELSE @,
                     !.imWriter = IF fresh THEN 0 ELSE @,
                     !.qkvIn = Junk, !.qkvFrom = 0, !.postOps = <<>>, !.residual = Junk,
                     !.out = NoGemm, !.postNorm = FALSE, !.trace = <<>>]
    /\ OrderUnchanged

(* if (doLnBefore) norm.forward(inputBuffer, imBuffer) *)
normStep(doLnBefore, input, imBuf, imWriter, n) ==
    IF doLnBefore
    THEN [imBuf |-> rmsNorm(input), imWriter |-> n, ran |-> TRUE]
    ELSE [imBuf |-> imBuf, imWriter |-> imWriter, ran |-> FALSE]

NormStep ==
    /\ region.pc = "norm"
    /\ LET res == normStep(tpl.doLnBefore, region.input, region.imBuf, region.imWriter,
                           region.n)
       IN  region' = [region EXCEPT
                         !.pc = "qkv", !.imBuf = res.imBuf, !.imWriter = res.imWriter,
                         !.trace = IF res.ran THEN Append(@, "norm") ELSE @]
    /\ OrderUnchanged

(* the QKV linear: compute / compute_bias on imBuffer *)
QkvStep ==
    /\ region.pc = "qkv"
    /\ region' = [region EXCEPT
                     !.pc = "postop", !.qkvIn = region.imBuf, !.qkvFrom = region.imWriter,
                     !.trace = Append(@, "qkv")]
    /\ OrderUnchanged

PostOpStep ==
    /\ region.pc = "postop"
    /\ region' = [region EXCEPT
                     !.pc = "attention",
                     !.postOps = qkPostOp(callerPositionIds(tpl.customPos, region.pastSeqLen,
                                                            region.inputSeqLen),
                                          ctx.maxPosEmbed, region.pastSeqLen,
                                          region.inputSeqLen),
                     !.trace = Append(@, "postop")]
    /\ OrderUnchanged

(* the kernel writes attnSplit: the imBuf memory, or, in a build without
   INPUT_AS_RESID, the input memory (the two buffers are swapped first) *)
KernelStep ==
    /\ region.pc = "attention"
    /\ region' = IF tpl.inputAsResid
                 THEN [region EXCEPT !.pc = "output", !.imBuf = AttnResult(region.n),
                                     !.imWriter = region.n,
                                     !.trace = Append(@, "attention")]
                 ELSE [region EXCEPT !.pc = "output", !.input = AttnResult(region.n),
                                     !.trace = Append(@, "attention")]
    /\ OrderUnchanged

OutputStep ==
    /\ region.pc = "output"
    /\ region' = [region EXCEPT
                     !.pc = "idle",
                     !.residual = IF tpl.inputAsResid THEN region.input ELSE region.imBuf,
                     !.out = outputProjection([attnOutputBias |-> Empty], 0),
                     !.postNorm = ~tpl.doLnBefore,
                     !.trace = Append(@, "output")]
    /\ OrderUnchanged

NextOrder ==
    \/ \E S \in {1, 2}, fresh \in BOOLEAN : EnterForward(S, fresh)
    \/ NormStep
    \/ QkvStep
    \/ PostOpStep
    \/ KernelStep
    \/ OutputStep

SpecOrder == InitOrder /\ [][NextOrder]_vars

QkvRan ==
    /\ region.n > 0
    /\ "qkv" \in {region.trace[i] : i \in 1..Len(region.trace)}

(* the steps that finished are ForwardOrder without the norm when doLnBefore is false,
   up to the step the call has reached *)
StepsInOrder ==
    LET order == IF tpl.doLnBefore THEN ForwardOrder ELSE Tail(ForwardOrder)
    IN  /\ Len(region.trace) <= Len(order)
        /\ \A i \in 1..Len(region.trace) : region.trace[i] = order[i]

(* C30: for both values of doLnBefore the QKV projection reads data produced from this
   call's input: the norm output written to imBuf earlier in the call when doLnBefore
   is true, the raw input when it is false; it never reads an imBuf the call has not
   written.  Norm, QKV projection, post-op, kernel and output projection run in that
   order, each after the previous one has finished. *)
C30_QkvReadsThisCallsData ==
    /\ StepsInOrder
    /\ QkvRan =>
           /\ region.qkvIn = IF tpl.doLnBefore
                                THEN rmsNorm(InputOf(region.n, 0))
                                ELSE InputOf(region.n, 0)
           /\ (tpl.doLnBefore => region.qkvFrom = region.n)

(* C30 with doLnBefore true: the QKV projection reads the norm of this call's input,
   written to imBuf by this call, and in every build the steps run in order. *)
C30_QkvReadsNormWhenLnBefore ==
    /\ StepsInOrder
    /\ (QkvRan /\ tpl.doLnBefore) =>
           /\ region.qkvIn = rmsNorm(InputOf(region.n, 0))
           /\ region.qkvFrom = region.n

(* doLnBefore false, second call on the imBuf of the first: the QKV linear reads the
   attention result the first call left there *)
C30_WitnessStale ==
    /\ ~tpl.doLnBefore /\ tpl.inputAsResid
    /\ region.n = 2 /\ QkvRan
    /\ region.qkvIn = AttnResult(1) /\ region.qkvFrom = 1

(* doLnBefore false, first call: the QKV linear reads memory nobody wrote *)
C30_WitnessUnwritten ==
    /\ ~tpl.doLnBefore
    /\ region.n = 1 /\ QkvRan
    /\ region.qkvIn = Junk /\ region.qkvFrom = 0

C30_WitnessLnBefore ==
    /\ tpl.doLnBefore
    /\ region.n = 2 /\ region.pc = "idle"
    /\ region.qkvIn = rmsNorm(InputOf(2, 0)) /\ region.qkvFrom = 2
    /\ region.trace = ForwardOrder

=============================================================================
